---------------------------- MODULE Spec2Model ----------------------------
(***************************************************************************)
(* Model of the Fly.io provider of Daytona (daytona-provider-fly):         *)
(*   - the tunnel session accessor, the dial-wait helper and the socket    *)
(*     forwarder of pkg/provider/conn.go,                                  *)
(*   - the readiness poller of pkg/provider/provider.go,                   *)
(*   - the log streamer of pkg/provider/util/fly.go,                       *)
(*   - the CreateTarget lifecycle call that ties them together,            *)
(*   - the options parser of pkg/types/targets.go,                         *)
(*   - the machine operations of pkg/provider/util/fly.go.                 *)
(* Each subsystem has its own specification (SpecConn, SpecDial,           *)
(* SpecSession, SpecClient, SpecPoll, SpecLogs, SpecCreate, SpecOptions,   *)
(* SpecMachine) over the same variables; a specification leaves the        *)
(* variables of the other subsystems at their initial values.              *)
(***************************************************************************)
EXTENDS Integers, Sequences, FiniteSets, TLC

(***************************************************************************)
(* Bounds of the model                                                     *)
(***************************************************************************)
\* number of helper calls the callers issue in total
MaxCalls == 2
\* number of calls that reach the session accessor
MaxSessionCalls == 3
\* longest identifier, and longest tail of a long identifier
MaxIdLen == 2
\* number of getDockerClient calls in the runs that follow one forward
MaxForwardCalls == 1
\* largest number of machines in the app's machine list
MaxMachines == 2
\* dial-wait timeout, in seconds (5*time.Minute in the callers, scaled)
DialTimeout == 2
\* longest duration of one failed dial attempt, in seconds
MaxDialDur == 1
\* readiness deadline, in ticker periods (5*time.Minute, scaled)
Deadline == 3
\* longest duration of one machine-state check, in ticker periods
MaxCheckDur == 2
\* number of page fetches of one streaming call
MaxFetches == 3
\* largest number of entries in one page of logs
MaxPageLen == 2
\* number of page fetches of the streaming task of one CreateTarget call
MaxCreateFetches == 1
\* largest number of entries in one page of that task
MaxCreatePageLen == 1

\* concurrent callers of one provider instance (RPC handlers)
Callers == {"c1", "c2"}
\* remote hostnames (target / workspace ids)
Hosts == {"h1", "h2"}
\* targetReq.Target.Id, the hostname of the target's machine
TargetId == "h1"

VARIABLES
    \* ---- provider instance and local filesystem (conn.go) ----
    tsnetConn,   \* p.tsnetConn: 0 is nil, n > 0 is the n-th constructed session
    sessions,    \* number of sessions tailscale.GetConnection has constructed
    callers,     \* per caller: position in the code and local variables
    calls,       \* number of calls begun so far
    dirExists,   \* per host: the directory filepath.Dir(localSockPath) exists
    sockExists,  \* per host: the socket file localSockPath exists
    fwds,        \* forwards started so far: sequence of records
    startedCap,  \* capacity of startedChan as made by the tailscale package
    hist,        \* history (ghost) record used to state properties
    \* ---- readiness poller (provider.go, checkMachineReady) ----
    pollPc,      \* "polling" inside the loop, "done" after the return
    pollResult,  \* "none", "ready" (nil) or "timeout" (the error)
    now,         \* time since entry, in ticker periods (200 ms)
    end,         \* the deadline recorded on entry
    tickPending, \* a tick is waiting in ticker.C (buffer of one)
    checks,      \* ghost: number of IsMachineReady calls so far
    goodAt,      \* ghost: index of the first known-good observation, 0 if none
    lastObs,     \* ghost: what the last state check observed
    spun,        \* ghost: an iteration neither waited for a tick nor checked
    \* ---- log streamer (util/fly.go, GetMachineLogs and pollLogs) ----
    logPc,       \* "idle" not started, "fetch", "sleep", "advance", "send", "done"
    prevToken,   \* pollLogs: prevToken
    nextToken,   \* pollLogs: nextToken, the cursor sent with the next fetch
    token,       \* pollLogs: the token the last fetch returned
    entries,     \* pollLogs: entries of the current page not yet sent
    held,        \* the entry the writer goroutine has received and not yet written
    sink,        \* what has been written to the log writer, in order
    logResult,   \* the error pollLogs returned, "none" before
    produced,    \* ghost: all entries the log API has returned, in order
    returned,    \* ghost: all tokens the log API has returned, in order
    apiErr,      \* ghost: the error of the most recent fetch, "none" if it succeeded
    cursorUsed,  \* ghost: the token the most recent fetch was made with
    iterDelay,   \* seconds slept since the most recent fetch
    fetchBudget, \* what the log API answers in this run: number of fetches,
                 \* largest page, tokens and errors
    closes,      \* number of times the log writer has been closed
    lateWrites,  \* ghost: a write was issued to the closed log writer
    \* ---- target options (types/targets.go, ParseTargetOptions) ----
    optPc,       \* "idle" no parse at hand, "input" before it, "done" after it
    optDoc,      \* the options JSON document handed to ParseTargetOptions
    optEnv,      \* the FLY_ACCESS_TOKEN environment variable
    optOut,      \* what ParseTargetOptions returned: error and options
    \* ---- machine operations (util/fly.go) ----
    mPc,         \* position in the operation: "idle", "call", "wait_app",
                 \* "deploy", "volume", "launch", "find", "act", "done"
    mOp,         \* the operation called
    machines,    \* the machines of the app, as the Machines API lists them
    mReqs,       \* requests sent to the Machines API so far, with responses
    mVol,        \* CreateMachine: the volume CreateVolume returned
    mFound,      \* the machine findMachine or Launch returned
    mRet,        \* the result of the operation, "none" before it returns
    mMeta,       \* the provider metadata built from the machine found
    mPending,    \* deletions the remote side has accepted and not yet applied
    mLast,       \* the operation that came before this one, and its result
    \* ---- resource naming (util/fly.go) ----
    nPc,         \* "idle" no derivation at hand, "input" before it, "done" after
    nIds,        \* two logical identifiers
    nOut         \* the names derived from each of them

logVars == <<logPc, prevToken, nextToken, token, entries, held, sink, logResult,
            produced, returned, apiErr, cursorUsed, iterDelay, fetchBudget,
            closes, lateWrites>>

pollVars ==
    <<pollPc, pollResult, now, end, tickPending, checks, goodAt, lastObs, spun>>

connVars == <<tsnetConn, sessions, callers, calls, dirExists, sockExists, fwds,
              startedCap, hist>>

optVars == <<optPc, optDoc, optEnv, optOut>>

machVars == <<mPc, mOp, machines, mReqs, mVol, mFound, mRet, mMeta, mPending,
             mLast>>

nameVars == <<nPc, nIds, nOut>>

vars == <<connVars, pollVars, logVars, optVars, machVars, nameVars>>

nonConnVars == <<pollVars, logVars, optVars, machVars, nameVars>>
nonPollVars == <<connVars, logVars, optVars, machVars, nameVars>>
nonLogVars == <<connVars, pollVars, optVars, machVars, nameVars>>
nonOptVars == <<connVars, pollVars, logVars, machVars, nameVars>>
nonMachVars == <<connVars, pollVars, logVars, optVars, nameVars>>
nonNameVars == <<connVars, pollVars, logVars, optVars, machVars>>

(***************************************************************************)
(* types/targets.go: TargetOptions, ParseTargetOptions                     *)
(***************************************************************************)
\* a JSON value of a key of the options document, or the key's absence
Absent == [kind |-> "absent", str |-> "", num |-> 0]
JNull == [kind |-> "null", str |-> "", num |-> 0]
JStr(s) == [kind |-> "str", str |-> s, num |-> 0]
JNum(n) == [kind |-> "num", str |-> "", num |-> n]

\* a text that is no JSON object
MalformedDoc ==
    [wellFormed |-> FALSE, org |-> Absent, token |-> Absent, disk |-> Absent]

\* the options documents: the keys "Org Slug", "Auth Token" and "Disk Size"
\* each absent, null, a string or a number
Docs ==
    {MalformedDoc} \cup
    [ wellFormed : {TRUE},
      org : {Absent, JNull, JStr(""), JStr("org"), JNum(7)},
      token : {Absent, JNull, JStr(""), JStr("token"), JNum(7)},
      disk : {Absent, JNum(10), JStr("10")} ]

\* os.LookupEnv("FLY_ACCESS_TOKEN"): unset, set to the empty string, set
UnsetEnv == [set |-> FALSE, val |-> ""]

Envs == {UnsetEnv, [set |-> TRUE, val |-> ""], [set |-> TRUE, val |-> "envtoken"]}

\* lines 11-17: the zero value of TargetOptions (the fields modelled)
ZeroOptions == [OrgSlug |-> "", AuthToken |-> "", DiskSize |-> 0]

\* encoding/json decoding a value into a Go string field and an int field:
\* an absent key or null leaves the zero value, a value of the other type
\* is a type error
StringFieldOk(v) == v.kind \in {"absent", "null", "str"}
IntFieldOk(v) == v.kind \in {"absent", "null", "num"}

\* line 52: json.Unmarshal([]byte(optionsJson), &targetOptions)
Unmarshal(doc) ==
    IF /\ doc.wellFormed
       /\ StringFieldOk(doc.org)
       /\ StringFieldOk(doc.token)
       /\ IntFieldOk(doc.disk)
       THEN [err |-> "none",
             opts |-> [OrgSlug |-> doc.org.str, AuthToken |-> doc.token.str,
                       DiskSize |-> doc.disk.num]]
       ELSE [err |-> "json", opts |-> ZeroOptions]

\* the environment value wins over the token of the input
ResolveTokenEnvFirst(given, env) ==
    IF env.set THEN env.val ELSE given

\* lines 57-63: an empty token is replaced by the environment value when
\* the variable is set
ResolveToken(given, env) ==
    IF given = "" /\ env.set THEN env.val ELSE given

\* ParseTargetOptions without the check of the org slug
ParseTargetOptionsNoOrgCheck(doc, env) ==
    LET u == Unmarshal(doc)
        tok == ResolveToken(u.opts.AuthToken, env)
    IN  IF u.err # "none" THEN [err |-> u.err, opts |-> ZeroOptions, nil |-> TRUE]
        ELSE IF tok = ""
                THEN [err |-> "auth token not set", opts |-> ZeroOptions,
                      nil |-> TRUE]
        ELSE [err |-> "none", opts |-> [u.opts EXCEPT !.AuthToken = tok],
              nil |-> FALSE]

\* lines 50-74; nil: the returned options pointer is nil
ParseTargetOptions(doc, env) ==
    LET u == Unmarshal(doc)
        tok == ResolveToken(u.opts.AuthToken, env)
    IN  IF u.err # "none" THEN [err |-> u.err, opts |-> ZeroOptions, nil |-> TRUE]
        ELSE IF tok = ""
                THEN [err |-> "auth token not set", opts |-> ZeroOptions,
                      nil |-> TRUE]
        ELSE IF u.opts.OrgSlug = ""
                THEN [err |-> "org slug not set", opts |-> ZeroOptions,
                      nil |-> TRUE]
        ELSE [err |-> "none", opts |-> [u.opts EXCEPT !.AuthToken = tok],
              nil |-> FALSE]

\* nothing returned yet
NoOutput == [err |-> "pending", opts |-> ZeroOptions, nil |-> TRUE]

\* no parse is at hand
IdleOpt ==
    /\ optPc = "idle"
    /\ optDoc = MalformedDoc
    /\ optEnv = UnsetEnv
    /\ optOut = NoOutput

(***************************************************************************)
(* util/fly.go: CreateMachine, StartMachine, StopMachine, DeleteMachine,    *)
(* GetMachine, findMachine                                                  *)
(***************************************************************************)
\* project.Name; names are sequences of characters
Project == <<"p">>

\* project.WorkspaceId
WorkspaceId == <<"w">>

\* getResourceName, lines 270-272: fmt.Sprintf("daytona-%s", identifier)
getResourceName(identifier) ==
    <<"d", "a", "y", "t", "o", "n", "a", "-">> \o identifier

\* names a listed machine may have: the derived name, a longer name that
\* starts with it, a proper prefix of it
MachineNames ==
    { getResourceName(Project), getResourceName(Project) \o <<"2">>,
      getResourceName(<<>>) }

\* states of the listed machines: fly.MachineStateCreated,
\* fly.MachineStateStarted, fly.MachineStateStopped
ListedStates == {"created", "started", "stopped"}

\* config.Mounts of a listed machine: none, one volume, two volumes
ListedMounts == {<<>>, <<"vol_a">>, <<"vol_b", "vol_a">>}

\* machine lists the Machines API may return: machine names are unique in
\* an app; the ID of a listed machine is its position in the list
MachineLists ==
    UNION { { [i \in 1..n |-> [name |-> f[i][1], state |-> f[i][2], id |-> i,
                               mounts |-> f[i][3]]] :
                f \in { g \in [1..n -> MachineNames \X ListedStates \X ListedMounts] :
                          \A i, j \in 1..n : i # j => g[i][1] # g[j][1] } } :
            n \in 0..MaxMachines }

\* IDs the Machines API gives to a new volume
VolumeIds == {"vol_a", "vol_b"}

NoVolume == [name |-> "none", id |-> "none"]
NoMachine == [name |-> <<>>, state |-> "none", id |-> 0, mounts |-> <<>>]

\* no metadata built
NoMeta == [MachineId |-> 0, VolumeId |-> "none", IsRunning |-> FALSE]

\* no operation came before
NoLast == [op |-> "none", ret |-> "none", id |-> 0]

MachineOps ==
    {"CreateMachine", "StartMachine", "StopMachine", "DeleteMachine", "GetMachine",
     "DeleteApp", "GetMetadata"}

\* HTTP status codes the DELETE of an app may be answered with
Statuses == {200, 202, 404, 500}

\* a status code of the success class
IsSuccessClass(code) == code \div 100 = 2

\* the decimal digit d as text
Digit(d) ==
    CASE d = 0 -> "0" [] d = 1 -> "1" [] d = 2 -> "2" [] d = 3 -> "3"
      [] d = 4 -> "4" [] d = 5 -> "5" [] d = 6 -> "6" [] d = 7 -> "7"
      [] d = 8 -> "8" [] d = 9 -> "9"

\* fmt's %d of a non-negative integer
RECURSIVE Decimal(_)
Decimal(n) == IF n < 10 THEN Digit(n) ELSE Decimal(n \div 10) \o Digit(n % 10)

\* an error for an unexpected status that does not say which
ErrStatusNoCode(code) == "unexpected error while deleting the app"

\* DeleteApp, line 69: the error for an unexpected status code
ErrStatus(code) ==
    "unexpected error while deleting the app status code: " \o Decimal(code)

ErrRequest == "new request error"
ErrIndex == "panic: index out of range"
ErrTransport == "http transport error"

\* the deletion of the whole app, accepted by the remote side
AppDeletion == [kind |-> "app", id |-> 0]

ErrFlapsClient == "flaps client error"
ErrWaitApp == "there was an issue waiting for the app"
ErrDeploy == "deploy image error"
ErrVolume == "create volume error"
ErrLaunch == "launch error"
ErrList == "list error"
ErrNotFound == "machine not found"
ErrStart == "start error"
ErrStop == "stop error"
ErrDestroy == "destroy error"

\* a request to the Machines API and its response
Req(k, i, v, r) == [kind |-> k, id |-> i, volume |-> v, resp |-> r]

IdleMach ==
    /\ mPc = "idle"
    /\ mOp = "none"
    /\ machines = <<>>
    /\ mReqs = <<>>
    /\ mVol = NoVolume
    /\ mFound = NoMachine
    /\ mRet = "none"
    /\ mMeta = NoMeta
    /\ mPending = {}
    /\ mLast = NoLast

\* a < b as sequences: a is a prefix of b
IsPrefix(a, b) == Len(a) <= Len(b) /\ SubSeq(b, 1, Len(a)) = a

\* a lookup that takes the first machine whose name starts with machineName
RECURSIVE findFromByPrefix(_, _, _)
findFromByPrefix(machineList, machineName, i) ==
    IF i > Len(machineList)
       THEN [err |-> ErrNotFound, machine |-> NoMachine]
       ELSE IF IsPrefix(machineName, machineList[i].name)
               THEN [err |-> "none", machine |-> machineList[i]]
               ELSE findFromByPrefix(machineList, machineName, i + 1)

\* a lookup by prefix instead of by the whole name
findMachineByPrefix(machineList, machineName) ==
    findFromByPrefix(machineList, machineName, 1)

\* findMachine, lines 260-266: the loop over machineList from position i
RECURSIVE findFrom(_, _, _)
findFrom(machineList, machineName, i) ==
    IF i > Len(machineList)
       THEN [err |-> ErrNotFound, machine |-> NoMachine]
       ELSE IF machineList[i].name = machineName
               THEN [err |-> "none", machine |-> machineList[i]]
               ELSE findFrom(machineList, machineName, i + 1)

\* findMachine, lines 254-267, on the list that List returned
findMachine(machineList, machineName) == findFrom(machineList, machineName, 1)

\* the operation returns r
MReturn(r) == mPc' = "done" /\ mRet' = r

\* createFlapsClient (lines 77-81, 146-150, 176-180, 193-197, 213-217)
MClient ==
    /\ UNCHANGED nonMachVars
    /\ mPc = "call"
    /\ \/ /\ mPc' = CASE mOp = "CreateMachine" -> "deploy"
                      [] mOp = "StartMachine" -> "wait_app"
                      [] mOp = "DeleteApp" -> "request"
                      [] OTHER -> "find"
          /\ UNCHANGED mRet
       \/ MReturn(ErrFlapsClient)
    /\ UNCHANGED <<mOp, machines, mReqs, mVol, mFound, mMeta, mPending, mLast>>

\* DeleteApp, lines 56-60: flapsClient.NewRequest for DELETE /apps/<app>
MNewRequest ==
    /\ UNCHANGED nonMachVars
    /\ mPc = "request"
    /\ \/ mPc' = "do" /\ UNCHANGED mRet
       \/ MReturn(ErrRequest)
    /\ UNCHANGED <<mOp, machines, mReqs, mVol, mFound, mMeta, mPending, mLast>>

\* DeleteApp, lines 62-72: http.DefaultClient.Do and the check of the status
\* code; a request answered in the success class has been accepted by the
\* remote side
MDo ==
    /\ UNCHANGED nonMachVars
    /\ mPc = "do"
    /\ \/ /\ mReqs' = Append(mReqs, Req("DeleteApp", 0, "none", 0))
          /\ MReturn(ErrTransport)
          /\ UNCHANGED mPending
       \/ \E code \in Statuses :
             /\ mReqs' = Append(mReqs, Req("DeleteApp", 0, "none", code))
             /\ MReturn(IF code # 202 THEN ErrStatus(code) ELSE "ok")
             /\ mPending' = IF IsSuccessClass(code)
                                THEN mPending \cup {AppDeletion} ELSE mPending
    /\ UNCHANGED <<mOp, machines, mVol, mFound, mMeta, mLast>>

\* the remote side applies a deletion it has accepted
MApplyDeletion ==
    /\ UNCHANGED nonMachVars
    /\ \E d \in mPending :
          /\ mPending' = mPending \ {d}
          /\ machines' = IF d.kind = "app" THEN <<>>
                          ELSE SelectSeq(machines, LAMBDA m : m.id # d.id)
    /\ UNCHANGED <<mPc, mOp, mReqs, mVol, mFound, mRet, mMeta, mLast>>

\* StartMachine, lines 152-155: flapsClient.WaitForApp
MWaitForApp ==
    /\ UNCHANGED nonMachVars
    /\ mPc = "wait_app"
    /\ \/ mPc' = "find" /\ UNCHANGED mRet
       \/ MReturn(ErrWaitApp)
    /\ UNCHANGED <<mOp, machines, mReqs, mVol, mFound, mMeta, mPending, mLast>>

\* CreateMachine, lines 83-86: deployImage
MDeployImage ==
    /\ UNCHANGED nonMachVars
    /\ mPc = "deploy"
    /\ \/ mPc' = "volume" /\ UNCHANGED mRet
       \/ MReturn(ErrDeploy)
    /\ UNCHANGED <<mOp, machines, mReqs, mVol, mFound, mMeta, mPending, mLast>>

\* a volume creation whose error is not checked
MCreateVolumeUnchecked ==
    /\ UNCHANGED nonMachVars
    /\ mPc = "volume"
    /\ \/ \E v \in VolumeIds :
             /\ mReqs' = Append(mReqs, Req("CreateVolume", 0, "none", v))
             /\ mVol' = [name |-> "vol", id |-> v]
       \/ /\ mReqs' = Append(mReqs, Req("CreateVolume", 0, "none", "error"))
          /\ UNCHANGED mVol
    /\ mPc' = "launch"
    /\ UNCHANGED <<mOp, machines, mFound, mRet, mMeta, mPending, mLast>>

\* CreateMachine, lines 88-95: flapsClient.CreateVolume
MCreateVolume ==
    /\ UNCHANGED nonMachVars
    /\ mPc = "volume"
    /\ \/ \E v \in VolumeIds :
             /\ mReqs' = Append(mReqs, Req("CreateVolume", 0, "none", v))
             /\ mVol' = [name |-> "vol", id |-> v]
             /\ mPc' = "launch"
             /\ UNCHANGED mRet
       \/ /\ mReqs' = Append(mReqs, Req("CreateVolume", 0, "none", "error"))
          /\ MReturn(ErrVolume)
          /\ UNCHANGED mVol
    /\ UNCHANGED <<mOp, machines, mFound, mMeta, mPending, mLast>>

\* an ID no listed machine has
NewMachineId ==
    1 + (IF machines = <<>> THEN 0
         ELSE CHOOSE i \in {machines[k].id : k \in 1..Len(machines)} :
                 \A k \in 1..Len(machines) : machines[k].id <= i)

\* flapsClient.Launch of a machine called name with the volume mounted: the
\* Machines API refuses a name that a machine of the app already has, and
\* lists the machine it has launched
LaunchNamed(name) ==
    /\ UNCHANGED nonMachVars
    /\ mPc = "launch"
    /\ \/ /\ \A k \in 1..Len(machines) : machines[k].name # name
          /\ LET m == [name |-> name, state |-> "created", id |-> NewMachineId,
                       mounts |-> <<mVol.id>>]
             IN  /\ machines' = Append(machines, m)
                 /\ mFound' = m
          /\ mReqs' = Append(mReqs, Req("Launch", 0, mVol.id, "ok"))
          /\ MReturn("ok")
       \/ /\ mReqs' = Append(mReqs, Req("Launch", 0, mVol.id, "error"))
          /\ MReturn(ErrLaunch)
          /\ UNCHANGED <<machines, mFound>>
    /\ UNCHANGED <<mOp, mVol, mMeta, mPending, mLast>>

\* a launch that names the machine after the workspace instead of the project
MLaunchOtherName == LaunchNamed(getResourceName(WorkspaceId))

\* CreateMachine, lines 102-121: flapsClient.Launch with the volume mounted
MLaunch == LaunchNamed(getResourceName(Project))

\* findMachine, lines 254-267, as called by StartMachine (158-161),
\* StopMachine (183-186), DeleteMachine (200-203) and GetMachine (220)
MFind ==
    /\ UNCHANGED nonMachVars
    /\ mPc = "find"
    /\ \/ /\ mReqs' = Append(mReqs, Req("List", 0, "none", "error"))
          /\ MReturn(ErrList)
          /\ UNCHANGED mFound
       \/ /\ mReqs' = Append(mReqs, Req("List", 0, "none", "ok"))
          /\ LET r == findMachine(machines, getResourceName(Project))
             IN  /\ mFound' = r.machine
                 /\ IF r.err # "none"
                       THEN MReturn(r.err)
                       ELSE IF mOp = "GetMachine"
                               THEN MReturn("ok")
                               ELSE mPc' = "act" /\ UNCHANGED mRet
    /\ UNCHANGED <<mOp, machines, mVol, mMeta, mPending, mLast>>

\* a start that is requested whatever the state of the machine
MStartAlways ==
    /\ UNCHANGED nonMachVars
    /\ mPc = "act"
    /\ mOp = "StartMachine"
    /\ \E r \in {"ok", "error"} :
          /\ mReqs' = Append(mReqs, Req("Start", mFound.id, "none", r))
          /\ MReturn(IF r = "ok" THEN "ok" ELSE ErrStart)
    /\ UNCHANGED <<mOp, machines, mVol, mFound, mMeta, mPending, mLast>>

\* StartMachine, lines 163-171: start the machine if it is stopped
MStart ==
    /\ UNCHANGED nonMachVars
    /\ mPc = "act"
    /\ mOp = "StartMachine"
    /\ IF mFound.state = "stopped"
          THEN \E r \in {"ok", "error"} :
                  /\ mReqs' = Append(mReqs, Req("Start", mFound.id, "none", r))
                  /\ MReturn(IF r = "ok" THEN "ok" ELSE ErrStart)
          ELSE /\ MReturn("ok")
               /\ UNCHANGED mReqs
    /\ UNCHANGED <<mOp, machines, mVol, mFound, mMeta, mPending, mLast>>

\* StopMachine, line 188: flapsClient.Stop, whatever the state of the machine
MStop ==
    /\ UNCHANGED nonMachVars
    /\ mPc = "act"
    /\ mOp = "StopMachine"
    /\ \E r \in {"ok", "error"} :
          /\ mReqs' = Append(mReqs, Req("Stop", mFound.id, "none", r))
          /\ MReturn(IF r = "ok" THEN "ok" ELSE ErrStop)
    /\ UNCHANGED <<mOp, machines, mVol, mFound, mMeta, mPending, mLast>>

\* metadata that carries the volume of the last mount
MMetadataLastMount ==
    /\ UNCHANGED nonMachVars
    /\ mPc = "act"
    /\ mOp = "GetMetadata"
    /\ IF mFound.mounts = <<>>
          THEN /\ MReturn(ErrIndex)
               /\ UNCHANGED mMeta
          ELSE /\ mMeta' = [MachineId |-> mFound.id,
                            VolumeId |-> mFound.mounts[Len(mFound.mounts)],
                            IsRunning |-> (mFound.state = "started")]
               /\ MReturn("ok")
    /\ UNCHANGED <<mOp, machines, mReqs, mVol, mFound, mPending, mLast>>

\* GetTargetProviderMetadata, provider.go lines 183-202 (getProjectInfo,
\* lines 612-633): the metadata of the machine GetMachine returned; indexing
\* Mounts[0] of a machine without mounts panics
MMetadata ==
    /\ UNCHANGED nonMachVars
    /\ mPc = "act"
    /\ mOp = "GetMetadata"
    /\ IF mFound.mounts = <<>>
          THEN /\ MReturn(ErrIndex)
               /\ UNCHANGED mMeta
          ELSE /\ mMeta' = [MachineId |-> mFound.id,
                            VolumeId |-> mFound.mounts[1],
                            IsRunning |-> (mFound.state = "started")]
               /\ MReturn("ok")
    /\ UNCHANGED <<mOp, machines, mReqs, mVol, mFound, mPending, mLast>>

\* a destroy whose error is dropped
MDestroyUnchecked ==
    /\ UNCHANGED nonMachVars
    /\ mPc = "act"
    /\ mOp = "DeleteMachine"
    /\ \/ /\ mReqs' = Append(mReqs, Req("Destroy", mFound.id, "none", "ok"))
          /\ mPending' = mPending \cup {[kind |-> "machine", id |-> mFound.id]}
       \/ /\ mReqs' = Append(mReqs, Req("Destroy", mFound.id, "none", "error"))
          /\ UNCHANGED mPending
    /\ MReturn("ok")
    /\ UNCHANGED <<mOp, machines, mVol, mFound, mMeta, mLast>>

\* DeleteMachine, lines 205-208: flapsClient.Destroy; a destroy answered
\* without error has been accepted by the remote side
MDestroy ==
    /\ UNCHANGED nonMachVars
    /\ mPc = "act"
    /\ mOp = "DeleteMachine"
    /\ \/ /\ mReqs' = Append(mReqs, Req("Destroy", mFound.id, "none", "ok"))
          /\ MReturn("ok")
          /\ mPending' = mPending \cup {[kind |-> "machine", id |-> mFound.id]}
       \/ /\ mReqs' = Append(mReqs, Req("Destroy", mFound.id, "none", "error"))
          /\ MReturn(ErrDestroy)
          /\ UNCHANGED mPending
    /\ UNCHANGED <<mOp, machines, mVol, mFound, mMeta, mLast>>

(***************************************************************************)
(* util/fly.go: getResourceName, getMachineName, getVolumeName              *)
(***************************************************************************)
\* characters an identifier is made of: a letter, a digit, the underscore,
\* the hyphen
IdChars == {"a", "7", "_", "-"}

\* the characters [a-zA-Z0-9_] that the pattern of line 277 keeps
KeptChars ==
    {"a", "b", "c", "d", "e", "f", "g", "h", "i", "j", "k", "l", "m", "n", "o",
     "p", "q", "r", "s", "t", "u", "v", "w", "x", "y", "z",
     "A", "B", "C", "D", "E", "F", "G", "H", "I", "J", "K", "L", "M", "N", "O",
     "P", "Q", "R", "S", "T", "U", "V", "W", "X", "Y", "Z",
     "0", "1", "2", "3", "4", "5", "6", "7", "8", "9", "_"}

\* getVolumeName, lines 281-283: the longest volume name
VolumeNameLimit == 30

\* sequences over IdChars of length n
CharSeqs(n) == [1..n -> IdChars]

\* a run of letters that brings a name close to the limit
LongStem == [i \in 1..(VolumeNameLimit - 9) |-> "x"]

\* identifiers: short ones, and long ones whose names reach the limit
Identifiers ==
    LET short == UNION {CharSeqs(n) : n \in 0..MaxIdLen}
    IN  short \cup {LongStem \o t : t \in short}

\* regexp.ReplaceAllString(name, "") with the pattern [^a-zA-Z0-9_]
Sanitize(name) == SelectSeq(name, LAMBDA ch : ch \in KeptChars)

\* formatted[:30] when len(formatted) > 30
Truncate(name) ==
    IF Len(name) > VolumeNameLimit THEN SubSeq(name, 1, VolumeNameLimit)
                                   ELSE name

\* getVolumeName, lines 275-285
getVolumeName(name) ==
    Truncate(Sanitize(<<"d", "a", "y", "t", "o", "n", "a", "_">> \o name))

\* the older getVolumeName, lines 611-617: no character is removed
getVolumeNameOld(workspaceId) ==
    Truncate(<<"d", "a", "y", "t", "o", "n", "a", "_">> \o workspaceId)

\* the names derived from one identifier
Derived(id) ==
    [ resource |-> getResourceName(id),
      volume |-> getVolumeName(id),
      volumeOld |-> getVolumeNameOld(id) ]

NoNames == [resource |-> <<>>, volume |-> <<>>, volumeOld |-> <<>>]

IdleName ==
    /\ nPc = "idle"
    /\ nIds = <<<<>>, <<>>>>
    /\ nOut = <<NoNames, NoNames>>

\* the names of both identifiers are derived
Derive ==
    /\ UNCHANGED nonNameVars
    /\ nPc = "input"
    /\ nOut' = <<Derived(nIds[1]), Derived(nIds[2])>>
    /\ nPc' = "again"
    /\ UNCHANGED nIds

\* the names are derived a second time
DeriveAgain ==
    /\ UNCHANGED nonNameVars
    /\ nPc = "again"
    /\ nPc' = IF nOut = <<Derived(nIds[1]), Derived(nIds[2])>>
                 THEN "done" ELSE "differs"
    /\ UNCHANGED <<nIds, nOut>>

(***************************************************************************)
(* conn.go: getTsnetConn, waitForDial, getDockerClient                     *)
(***************************************************************************)
NilConn == 0

ErrSession == "session construction failed"
ErrDialTimeout == "timeout: dialing timed out"
ErrMkdir == "mkdir failed"
ErrTunnel == "failed to start SSH tunnel"
ErrClient == "docker client failed"

\* a caller that is not inside a call
IdleCaller ==
    [ pc |-> "idle",
      op |-> "none",       \* the operation the caller invoked
      sub |-> "none",      \* the helper in progress: waitForDial / getDockerClient
      host |-> "none",     \* the hostname argument (workspaceId)
      conn |-> NilConn,    \* the local variable tsnetConn
      ret |-> "none",      \* result of the last finished call
      elapsed |-> 0,       \* time.Since(dialStartTime), in seconds
      myFwd |-> 0,         \* index of the forward this call started (0: none)
      firstUse |-> FALSE,  \* ghost: the call began with no local directory
      afterFail |-> FALSE, \* ghost: the call began after a forward of the host
                           \*        had failed and been cleaned up
      shortcut |-> FALSE,  \* ghost: the call took the 'already active' branch
      seen |-> NilConn ]   \* ghost: p.tsnetConn when the call began

InitHist ==
    [ got |-> {},               \* sessions returned by getTsnetConn so far
      concurrentFirst |-> {},   \* hosts with two overlapping first uses
      creates |-> 0,            \* CreateTarget calls begun
      machineCreates |-> 0,     \* flyutil.CreateTarget calls made
      remoteCalls |-> 0,        \* control-plane calls of lifecycle operations
      streamStarts |-> 0,       \* log streaming tasks started
      steps |-> <<>>,           \* steps the lifecycle call has entered
      passed |-> {} ]           \* control-plane steps that succeeded

\* a provider as Initialize leaves it: no session, no call in progress, no
\* local socket directory
FreshProvider ==
    /\ tsnetConn = NilConn
    /\ sessions = 0
    /\ callers = [c \in Callers |-> IdleCaller]
    /\ calls = 0
    /\ dirExists = [h \in Hosts |-> FALSE]
    /\ sockExists = [h \in Hosts |-> FALSE]
    /\ fwds = <<>>
    /\ hist = InitHist

\* startedChan is made by the tailscale package: unbuffered or buffered
InitConn ==
    /\ FreshProvider
    /\ startedCap \in {0, 1}

IdleConn ==
    /\ FreshProvider
    /\ startedCap = 0

\* forwards of host h
FwdsOf(h) == {f \in 1..Len(fwds) : fwds[f].host = h}

\* a forward of h failed and its cleanup goroutine ran to the end, and no
\* other forward of h is still alive
FailedAndCleaned(h) ==
    /\ \E f \in FwdsOf(h) : fwds[f].task = "failed" /\ fwds[f].cleanup = "done"
    /\ \A f \in FwdsOf(h) : fwds[f].task = "failed"

At(c, p) == callers[c].pc = p

\* the lifecycle call enters step s
Entered(s) == [hist EXCEPT !.steps = Append(@, s)]

Goto(c, p) == callers' = [callers EXCEPT ![c].pc = p]

\* a helper returns value v: a direct call is over and its caller holds v;
\* inside CreateTarget the lifecycle call goes on after the helper
Finish(c, v) ==
    callers' = [callers EXCEPT ![c] =
        IF callers[c].op = "CreateTarget"
           THEN [IdleCaller EXCEPT
                   !.pc = IF callers[c].sub = "waitForDial" THEN "ct_after_dial"
                                                            ELSE "ct_after_client",
                   !.op = "CreateTarget", !.host = callers[c].host, !.ret = v]
           ELSE [IdleCaller EXCEPT !.pc = "done", !.ret = v]]

\* caller c invokes helper o for hostname h, as one of at most n calls
InvokeWithin(c, o, h, n) ==
    /\ UNCHANGED nonConnVars
    /\ callers[c].pc \in {"idle", "done"}
    /\ calls < n
    /\ callers' = [callers EXCEPT ![c] =
           [IdleCaller EXCEPT
              !.pc = "ts_check", !.op = o, !.sub = o, !.host = h,
              !.firstUse = (o = "getDockerClient" /\ ~dirExists[h]),
              !.afterFail = (o = "getDockerClient" /\ FailedAndCleaned(h)),
              !.seen = tsnetConn]]
    /\ hist' = [hist EXCEPT
           !.concurrentFirst = IF /\ o = "getDockerClient"
                                  /\ ~dirExists[h]
                                  /\ \E d \in Callers \ {c} :
                                       /\ callers[d].sub = "getDockerClient"
                                       /\ callers[d].host = h
                                       /\ callers[d].firstUse
                               THEN @ \cup {h} ELSE @]
    /\ calls' = calls + 1
    /\ UNCHANGED <<tsnetConn, sessions, dirExists, sockExists, fwds, startedCap>>

\* caller c invokes helper o for hostname h
Invoke(c, o, h) == InvokeWithin(c, o, h, MaxCalls)

\* a caller invokes waitForDial or getDockerClient for a hostname
BeginCall(c) ==
    \E o \in {"waitForDial", "getDockerClient"}, h \in Hosts : Invoke(c, o, h)

\* a caller invokes waitForDial
BeginDial(c) == \E h \in Hosts : Invoke(c, "waitForDial", h)

\* a caller invokes waitForDial for the target, early or late in the life of
\* the provider
BeginSession(c) == InvokeWithin(c, "waitForDial", TargetId, MaxSessionCalls)

\* a caller invokes getDockerClient for the target
BeginClient(c) == Invoke(c, "getDockerClient", TargetId)

\* getTsnetConn, line 21: if p.tsnetConn == nil
TsCheck(c) ==
    /\ UNCHANGED nonConnVars
    /\ At(c, "ts_check")
    /\ Goto(c, IF tsnetConn = NilConn THEN "ts_construct" ELSE "ts_return")
    /\ UNCHANGED <<tsnetConn, sessions, calls, dirExists, sockExists, fwds,
                   startedCap, hist>>

\* an accessor that stores what a failed construction left behind
TsConstructStoresFailed(c) ==
    /\ UNCHANGED nonConnVars
    /\ At(c, "ts_construct")
    /\ \/ /\ sessions' = sessions + 1
          /\ callers' = [callers EXCEPT ![c].conn = sessions + 1,
                                        ![c].pc = "ts_store"]
          /\ UNCHANGED tsnetConn
       \/ /\ Finish(c, ErrSession)
          /\ tsnetConn' = sessions + 1
          /\ UNCHANGED sessions
    /\ UNCHANGED <<calls, dirExists, sockExists, fwds, startedCap, hist>>

\* getTsnetConn, lines 22-31: tailscale.GetConnection constructs a session
\* or fails; on failure the helper returns the error
TsConstruct(c) ==
    /\ UNCHANGED nonConnVars
    /\ At(c, "ts_construct")
    /\ \/ /\ sessions' = sessions + 1
          /\ callers' = [callers EXCEPT ![c].conn = sessions + 1,
                                        ![c].pc = "ts_store"]
       \/ /\ Finish(c, ErrSession)
          /\ UNCHANGED sessions
    /\ UNCHANGED <<tsnetConn, calls, dirExists, sockExists, fwds, startedCap,
                   hist>>

\* an accessor that keeps the session it constructed to itself
TsStoreNothing(c) ==
    /\ UNCHANGED nonConnVars
    /\ At(c, "ts_store")
    /\ Goto(c, "ts_return")
    /\ UNCHANGED <<tsnetConn, sessions, calls, dirExists, sockExists, fwds,
                   startedCap, hist>>

\* getTsnetConn, line 32: p.tsnetConn = tsnetConn
TsStore(c) ==
    /\ UNCHANGED nonConnVars
    /\ At(c, "ts_store")
    /\ tsnetConn' = callers[c].conn
    /\ Goto(c, "ts_return")
    /\ UNCHANGED <<sessions, calls, dirExists, sockExists, fwds, startedCap,
                   hist>>

\* getTsnetConn, line 35: return p.tsnetConn, nil; the helper goes on with
\* the session in its local variable (waitForDial line 44: dialStartTime)
TsReturn(c) ==
    /\ UNCHANGED nonConnVars
    /\ At(c, "ts_return")
    /\ callers' = [callers EXCEPT
            ![c].conn = tsnetConn,
            ![c].elapsed = 0,
            ![c].pc = IF callers[c].sub = "waitForDial" THEN "dial_check"
                                                        ELSE "stat"]
    /\ hist' = [hist EXCEPT !.got = @ \cup {tsnetConn}]
    /\ UNCHANGED <<tsnetConn, sessions, calls, dirExists, sockExists, fwds,
                   startedCap>>

\* waitForDial, line 56: time.Sleep(time.Second)
SleepSeconds == 1

\* a timeout check that gives up one retry interval early
DialCheckEarly(c) ==
    /\ UNCHANGED nonConnVars
    /\ At(c, "dial_check")
    /\ IF callers[c].elapsed + SleepSeconds > DialTimeout
          THEN Finish(c, ErrDialTimeout)
          ELSE Goto(c, "dial")
    /\ UNCHANGED <<tsnetConn, sessions, calls, dirExists, sockExists, fwds,
                   startedCap, hist>>

\* waitForDial, lines 46-48: the timeout check at the top of the loop
DialCheck(c) ==
    /\ UNCHANGED nonConnVars
    /\ At(c, "dial_check")
    /\ IF callers[c].elapsed > DialTimeout
          THEN Finish(c, ErrDialTimeout)
          ELSE Goto(c, "dial")
    /\ UNCHANGED <<tsnetConn, sessions, calls, dirExists, sockExists, fwds,
                   startedCap, hist>>

\* waitForDial, lines 50-56: one dial attempt; success returns nil, failure
\* sleeps one second and loops
DialAttempt(c) ==
    /\ UNCHANGED nonConnVars
    /\ At(c, "dial")
    /\ \/ Finish(c, "ok")
       \/ \E d \in 0..MaxDialDur :
            callers' = [callers EXCEPT ![c].elapsed = @ + d + SleepSeconds,
                                       ![c].pc = "dial_check"]
    /\ UNCHANGED <<tsnetConn, sessions, calls, dirExists, sockExists, fwds,
                   startedCap, hist>>

\* the socket file itself is looked up
SocketPresent(h) == sockExists[h]

\* getDockerClient, line 68: os.Stat(filepath.Dir(localSockPath)) finds the
\* parent directory of the socket path
DirPresent(h) == dirExists[h]

\* getDockerClient, line 68: os.Stat(filepath.Dir(localSockPath))
Stat(c) ==
    /\ UNCHANGED nonConnVars
    /\ At(c, "stat")
    /\ IF DirPresent(callers[c].host)
          THEN callers' = [callers EXCEPT ![c].pc = "new_client",
                                          ![c].shortcut = TRUE]
          ELSE Goto(c, "mkdir")
    /\ UNCHANGED <<tsnetConn, sessions, calls, dirExists, sockExists, fwds,
                   startedCap, hist>>

\* getDockerClient, lines 69-72: os.MkdirAll succeeds (also when the
\* directory exists by now) or fails
Mkdir(c) ==
    /\ UNCHANGED nonConnVars
    /\ At(c, "mkdir")
    /\ \/ /\ dirExists' = [dirExists EXCEPT ![callers[c].host] = TRUE]
          /\ Goto(c, "forward")
       \/ /\ Finish(c, ErrMkdir)
          /\ UNCHANGED dirExists
    /\ UNCHANGED <<tsnetConn, sessions, calls, sockExists, fwds, startedCap,
                   hist>>

\* the forwarding task and the goroutine of lines 83-90 that waits for its
\* error, as tailscale.ForwardRemoteUnixSock and getDockerClient start them
NewForward(h) ==
    [ host |-> h,
      task |-> "connecting",  \* connecting, listening, serving, failed
      started |-> <<>>,       \* contents of startedChan
      signalled |-> FALSE,    \* ghost: the task has sent started = true
      cleanup |-> "wait_err"  \* wait_err, send_false, remove, done
    ]

\* getDockerClient, lines 74-90
Forward(c) ==
    /\ UNCHANGED nonConnVars
    /\ At(c, "forward")
    /\ fwds' = Append(fwds, NewForward(callers[c].host))
    /\ callers' = [callers EXCEPT ![c].myFwd = Len(fwds) + 1,
                                  ![c].pc = "wait_started"]
    /\ UNCHANGED <<tsnetConn, sessions, calls, dirExists, sockExists,
                   startedCap, hist>>

\* the callers blocked in "started := <-startedChan" of forward f
Receiver(f) == {c \in Callers : At(c, "wait_started") /\ callers[c].myFwd = f}

\* a send on startedChan can complete: room in the buffer, or (unbuffered)
\* the receiver is waiting
CanSendStarted(f) ==
    IF startedCap = 0 THEN Receiver(f) # {} /\ fwds[f].started = <<>>
                      ELSE Len(fwds[f].started) < startedCap

\* the forwarding task creates the local listener: the socket file appears
ForwardListen(f) ==
    /\ UNCHANGED nonConnVars
    /\ f \in 1..Len(fwds)
    /\ fwds[f].task = "connecting"
    /\ ~sockExists[fwds[f].host]
    /\ sockExists' = [sockExists EXCEPT ![fwds[f].host] = TRUE]
    /\ fwds' = [fwds EXCEPT ![f].task = "listening"]
    /\ UNCHANGED <<tsnetConn, sessions, callers, calls, dirExists, startedCap,
                   hist>>

\* the forwarding task reports readiness: startedChan <- true
ForwardStarted(f) ==
    /\ UNCHANGED nonConnVars
    /\ f \in 1..Len(fwds)
    /\ fwds[f].task = "listening"
    /\ CanSendStarted(f)
    /\ fwds' = [fwds EXCEPT ![f].task = "serving",
                            ![f].started = Append(@, TRUE),
                            ![f].signalled = TRUE]
    /\ UNCHANGED <<tsnetConn, sessions, callers, calls, dirExists, sockExists,
                   startedCap, hist>>

\* the forwarding task fails (before or after it started) and hands its
\* error over errChan to the goroutine of lines 83-90, which logs it
\* (lines 84-86); closing the listener may unlink the socket file
ForwardFail(f) ==
    /\ UNCHANGED nonConnVars
    /\ f \in 1..Len(fwds)
    /\ fwds[f].task \in {"connecting", "listening", "serving"}
    /\ fwds' = [fwds EXCEPT ![f].task = "failed", ![f].cleanup = "send_false"]
    /\ \/ UNCHANGED sockExists
       \/ /\ fwds[f].task \in {"listening", "serving"}
          /\ sockExists[fwds[f].host]
          /\ sockExists' = [sockExists EXCEPT ![fwds[f].host] = FALSE]
    /\ UNCHANGED <<tsnetConn, sessions, callers, calls, dirExists, startedCap,
                   hist>>

\* a goroutine that removes the socket file without sending on startedChan
CleanupSendNothing(f) ==
    /\ UNCHANGED nonConnVars
    /\ f \in 1..Len(fwds)
    /\ fwds[f].cleanup = "send_false"
    /\ fwds' = [fwds EXCEPT ![f].cleanup = "remove"]
    /\ UNCHANGED <<tsnetConn, sessions, callers, calls, dirExists, sockExists,
                   startedCap, hist>>

\* getDockerClient, line 87: startedChan <- false
CleanupSend(f) ==
    /\ UNCHANGED nonConnVars
    /\ f \in 1..Len(fwds)
    /\ fwds[f].cleanup = "send_false"
    /\ CanSendStarted(f)
    /\ fwds' = [fwds EXCEPT ![f].cleanup = "remove",
                            ![f].started = Append(@, FALSE)]
    /\ UNCHANGED <<tsnetConn, sessions, callers, calls, dirExists, sockExists,
                   startedCap, hist>>

\* getDockerClient, line 88: _ = os.Remove(localSockPath)
CleanupRemove(f) ==
    /\ UNCHANGED nonConnVars
    /\ f \in 1..Len(fwds)
    /\ fwds[f].cleanup = "remove"
    /\ sockExists' = [sockExists EXCEPT ![fwds[f].host] = FALSE]
    /\ fwds' = [fwds EXCEPT ![f].cleanup = "done"]
    /\ UNCHANGED <<tsnetConn, sessions, callers, calls, dirExists, startedCap,
                   hist>>

\* getDockerClient, lines 92-95: started := <-startedChan
WaitStarted(c) ==
    /\ UNCHANGED nonConnVars
    /\ At(c, "wait_started")
    /\ fwds[callers[c].myFwd].started # <<>>
    /\ fwds' = [fwds EXCEPT ![callers[c].myFwd].started = Tail(@)]
    /\ IF Head(fwds[callers[c].myFwd].started)
          THEN Goto(c, "new_client")
          ELSE Finish(c, ErrTunnel)
    /\ UNCHANGED <<tsnetConn, sessions, calls, dirExists, sockExists,
                   startedCap, hist>>

\* getDockerClient, lines 98-105: the client is built against the local
\* socket path
NewClient(c) ==
    /\ UNCHANGED nonConnVars
    /\ At(c, "new_client")
    /\ \/ Finish(c, "ok")
       \/ Finish(c, ErrClient)
    /\ UNCHANGED <<tsnetConn, sessions, calls, dirExists, sockExists, fwds,
                   startedCap, hist>>

CallerStep(c) ==
    \/ TsCheck(c) \/ TsConstruct(c) \/ TsStore(c) \/ TsReturn(c)
    \/ DialCheck(c) \/ DialAttempt(c)
    \/ Stat(c) \/ Mkdir(c) \/ Forward(c) \/ WaitStarted(c) \/ NewClient(c)

ForwardStep(f) ==
    \/ ForwardListen(f) \/ ForwardStarted(f) \/ ForwardFail(f)
    \/ CleanupSend(f) \/ CleanupRemove(f)

IdlePoll ==
    /\ pollPc = "idle"
    /\ pollResult = "none"
    /\ now = 0
    /\ end = 0
    /\ tickPending = FALSE
    /\ checks = 0
    /\ goodAt = 0
    /\ lastObs = "none"
    /\ spun = FALSE

IdleLog ==
    /\ fetchBudget = [fetches |-> MaxCreateFetches, page |-> MaxCreatePageLen,
                      tokens |-> {"", "t1"}, errors |-> {"fetch_error_1"}]
    /\ logPc = "idle"
    /\ prevToken = ""
    /\ nextToken = ""
    /\ token = ""
    /\ entries = <<>>
    /\ held = <<>>
    /\ sink = <<>>
    /\ logResult = "none"
    /\ produced = <<>>
    /\ returned = <<>>
    /\ apiErr = "none"
    /\ cursorUsed = ""
    /\ iterDelay = 0
    /\ closes = 0
    /\ lateWrites = FALSE

\* the steps of a waitForDial call
DialStep(c) ==
    \/ TsCheck(c) \/ TsConstruct(c) \/ TsStore(c) \/ TsReturn(c)
    \/ DialCheck(c) \/ DialAttempt(c)

\* the steps of a getDockerClient call
ClientStep(c) ==
    \/ TsCheck(c) \/ TsConstruct(c) \/ TsStore(c) \/ TsReturn(c)
    \/ Stat(c) \/ Mkdir(c) \/ Forward(c) \/ WaitStarted(c) \/ NewClient(c)

NextConn ==
    \/ \E c \in Callers : BeginCall(c)
    \/ \E c \in Callers : CallerStep(c)
    \/ \E f \in 1..MaxCalls : ForwardStep(f)

StartConn == InitConn /\ IdlePoll /\ IdleLog /\ IdleOpt /\ IdleMach /\ IdleName

SpecConn == StartConn /\ [][NextConn]_vars

\* concurrent callers of waitForDial alone
NextDial ==
    \/ \E c \in Callers : BeginDial(c)
    \/ \E c \in Callers : DialStep(c)

StartDial == IdleConn /\ IdlePoll /\ IdleLog /\ IdleOpt /\ IdleMach /\ IdleName

SpecDial == StartDial /\ [][NextDial]_vars

\* every caller's goroutine is scheduled
FairSpecDial == SpecDial /\ \A c \in Callers : WF_vars(DialStep(c))

\* calls that reach the session accessor one after another and concurrently
NextSession ==
    \/ \E c \in Callers : BeginSession(c)
    \/ \E c \in Callers : DialStep(c)

SpecSession == StartDial /\ [][NextSession]_vars

\* a forward that has not yet reported goes on to report or to clean up
ForwardProgress(f) ==
    \/ ForwardListen(f) \/ ForwardStarted(f)
    \/ CleanupSend(f) \/ CleanupRemove(f)

\* concurrent callers of getDockerClient for one target
NextClient ==
    \/ \E c \in Callers : BeginClient(c)
    \/ \E c \in Callers : ClientStep(c)
    \/ \E f \in 1..MaxCalls : ForwardStep(f)

SpecClient == StartConn /\ [][NextClient]_vars

\* a forwarding task that cannot bind its listener because the socket path
\* is taken fails
ForwardBindFail(f) ==
    /\ f \in 1..Len(fwds)
    /\ fwds[f].task = "connecting"
    /\ sockExists[fwds[f].host]
    /\ ForwardFail(f)

\* getDockerClient calls that find no directory and start a forward
BeginForwardCall(c) ==
    InvokeWithin(c, "getDockerClient", TargetId, MaxForwardCalls)

NextForward ==
    \/ \E c \in Callers : BeginForwardCall(c)
    \/ \E c \in Callers : ClientStep(c)
    \/ \E f \in 1..MaxCalls : ForwardStep(f)

SpecForward == StartConn /\ [][NextForward]_vars

\* every caller's goroutine, every forwarding task that has not reported
\* and every goroutine of lines 83-90 is scheduled
FairSpecForward ==
    /\ SpecForward
    /\ \A c \in Callers : WF_vars(ClientStep(c))
    /\ \A f \in 1..MaxCalls : WF_vars(ForwardProgress(f) \/ ForwardBindFail(f))

(***************************************************************************)
(* provider.go: checkMachineReady; util/fly.go: IsMachineReady             *)
(***************************************************************************)
\* fly.MachineState* values a listed machine can be in
MachineStates == {"created", "starting", "started", "stopping", "stopped",
                  "destroying", "destroyed", "unknown"}

\* the ways IsMachineReady fails before it sees a state: createFlapsClient
\* fails, List fails, no machine of that name is listed
CheckErrors == {"client_error", "list_error", "not_found"}

Observations == MachineStates \cup CheckErrors

\* knownStatus without the stopped state
knownStatusNoStopped == {"created", "started"}

\* util/fly.go line 140
knownStatus == {"created", "started", "stopped"}

\* util/fly.go lines 127-142
IsMachineReady(o) ==
    IF o \in CheckErrors THEN FALSE ELSE o \in knownStatus

\* the clock stops here: nothing of interest happens later
MaxTime == Deadline + 3 * MaxCheckDur

\* provider.go lines 667-670: the ticker is created, the deadline recorded
InitPoll ==
    /\ pollPc = "polling"
    /\ pollResult = "none"
    /\ now = 0
    /\ end = Deadline
    /\ tickPending = FALSE
    /\ checks = 0
    /\ goodAt = 0
    /\ lastObs = "none"
    /\ spun = FALSE

\* a poller that returns the error of a failed state check
PollTickSurfacesError ==
    /\ UNCHANGED nonPollVars
    /\ pollPc = "polling"
    /\ tickPending
    /\ now < MaxTime
    /\ \E o \in Observations, d \in 0..MaxCheckDur :
         /\ now' = now + d
         /\ tickPending' = (d > 0)
         /\ checks' = checks + 1
         /\ lastObs' = o
         /\ goodAt' = IF goodAt = 0 /\ o \in {"created", "started", "stopped"}
                         THEN checks + 1 ELSE goodAt
         /\ IF o \in CheckErrors
               THEN pollPc' = "done" /\ pollResult' = o
               ELSE IF o \in {"created", "started", "stopped"}
                       THEN pollPc' = "done" /\ pollResult' = "ready"
                       ELSE UNCHANGED <<pollPc, pollResult>>
    /\ UNCHANGED <<end, spun>>

\* provider.go lines 674-677: the select takes the tick and runs one state
\* check, which observes o and lasts d periods; the ticks that fire meanwhile
\* leave one tick pending
PollTick ==
    /\ UNCHANGED nonPollVars
    /\ pollPc = "polling"
    /\ tickPending
    /\ now < MaxTime
    /\ \E o \in Observations, d \in 0..MaxCheckDur :
         /\ now' = now + d
         /\ tickPending' = (d > 0)
         /\ checks' = checks + 1
         /\ lastObs' = o
         /\ goodAt' = IF goodAt = 0 /\ o \in {"created", "started", "stopped"}
                         THEN checks + 1 ELSE goodAt
         /\ IF IsMachineReady(o)
               THEN pollPc' = "done" /\ pollResult' = "ready"
               ELSE UNCHANGED <<pollPc, pollResult>>
    /\ UNCHANGED <<end, spun>>

\* provider.go lines 678-681: no tick is pending, the select takes default
\* without waiting; past the deadline it returns the error, else the
\* iteration ends with nothing done and the loop spins until the next tick
\* fires
PollDefault ==
    /\ UNCHANGED nonPollVars
    /\ pollPc = "polling"
    /\ ~tickPending
    /\ IF now >= end
          THEN /\ pollPc' = "done"
               /\ pollResult' = "timeout"
               /\ UNCHANGED <<now, tickPending, spun>>
          ELSE /\ now' = now + 1
               /\ tickPending' = TRUE
               /\ spun' = TRUE
               /\ UNCHANGED <<pollPc, pollResult>>
    /\ UNCHANGED <<end, checks, goodAt, lastObs>>

NextPoll ==
    \/ PollTick
    \/ PollDefault

StartPoll == InitPoll /\ IdleConn /\ IdleLog /\ IdleOpt /\ IdleMach /\ IdleName

SpecPoll == StartPoll /\ [][NextPoll]_vars

(***************************************************************************)
(* util/fly.go: GetMachineLogs, pollLogs                                   *)
(***************************************************************************)
\* pagination tokens of the log API; "" is the empty token
Tokens == {"", "t1", "t2"}

\* errors of client.GetAppLogs
FetchErrors == {"fetch_error_1", "fetch_error_2"}

\* the k-th entry the log API produces
MkEntry(k) ==
    [ Timestamp |-> k,
      Instance |-> "machine",
      Region |-> "region",
      Level |-> IF k % 2 = 0 THEN "info" ELSE "error",
      Message |-> k ]

\* util/fly.go lines 314-320: "%s app[%s] %s [%s] %s \n"
Format(e) ==
    <<e.Timestamp, " app[", e.Instance, "] ", e.Region, " [", e.Level, "] ",
      e.Message, " \n">>

\* the page reversed
Reverse(page) == [i \in 1..Len(page) |-> page[Len(page) + 1 - i]]

\* util/fly.go line 313: range entries visits the page in order
RangeOrder(page) == page

\* returns also on an empty page
FetchReturnsOnEmpty(err, page) == err # "none" \/ page = <<>>

\* util/fly.go lines 298-300: if err != nil { return err }
FetchReturns(err, page) == err # "none"

\* delays when the token equals the request cursor instead of prevToken
ShouldDelayOnCursor(tok, prev, next) == tok = next

\* util/fly.go line 304: if token == prevToken
ShouldDelay(tok, prev, next) == tok = prev

\* a cursor that follows every returned token, the empty one too
AdvanceCursorAlways(tok, next) == tok

\* util/fly.go lines 309-311: if token != "" { nextToken = token }
AdvanceCursor(tok, next) == IF tok # "" THEN tok ELSE next

\* util/fly.go line 305: time.Sleep(10 * time.Second)
LogSleepSeconds == 10

\* util/fly.go lines 234-241 and 291-294: the channel is made, the writer
\* goroutine started, and pollLogs entered with empty tokens
InitLog ==
    /\ fetchBudget = [fetches |-> MaxFetches, page |-> MaxPageLen,
                      tokens |-> Tokens, errors |-> FetchErrors]
    /\ logPc = "fetch"
    /\ prevToken = ""
    /\ nextToken = ""
    /\ token = ""
    /\ entries = <<>>
    /\ held = <<>>
    /\ sink = <<>>
    /\ logResult = "none"
    /\ produced = <<>>
    /\ returned = <<>>
    /\ apiErr = "none"
    /\ cursorUsed = ""
    /\ iterDelay = 0
    /\ closes = 0
    /\ lateWrites = FALSE

\* util/fly.go lines 297-306: one fetch with the cursor nextToken; the API
\* fails (no page, no token), or returns a page of new entries and a token
LogFetch ==
    /\ UNCHANGED nonLogVars
    /\ logPc = "fetch"
    /\ Len(returned) + (IF apiErr = "none" THEN 0 ELSE 1) < fetchBudget.fetches
    /\ cursorUsed' = nextToken
    /\ iterDelay' = 0
    /\ \E err \in fetchBudget.errors \cup {"none"}, n \in 0..fetchBudget.page,
       t \in fetchBudget.tokens :
         LET page == [i \in 1..n |-> MkEntry(Len(produced) + i)] IN
         /\ err # "none" => (n = 0 /\ t = "")
         /\ apiErr' = err
         /\ produced' = produced \o page
         /\ returned' = IF err = "none" THEN Append(returned, t) ELSE returned
         /\ token' = t
         /\ entries' = RangeOrder(page)
         /\ IF FetchReturns(err, page)
               THEN /\ logPc' = "done"
                    /\ logResult' = err
               ELSE /\ logPc' = IF ShouldDelay(t, prevToken, nextToken)
                                   THEN "sleep" ELSE "advance"
                    /\ UNCHANGED logResult
    /\ UNCHANGED <<prevToken, nextToken, held, sink, fetchBudget, closes,
                   lateWrites>>

\* util/fly.go line 305
LogSleep ==
    /\ UNCHANGED nonLogVars
    /\ logPc = "sleep"
    /\ iterDelay' = iterDelay + LogSleepSeconds
    /\ logPc' = "advance"
    /\ UNCHANGED <<prevToken, nextToken, token, entries, held, sink, logResult,
                   produced, returned, apiErr, cursorUsed, fetchBudget, closes,
                   lateWrites>>

\* util/fly.go lines 308-311; with an empty page the loop goes straight to
\* the next fetch
LogAdvance ==
    /\ UNCHANGED nonLogVars
    /\ logPc = "advance"
    /\ prevToken' = token
    /\ nextToken' = AdvanceCursor(token, nextToken)
    /\ logPc' = IF entries = <<>> THEN "fetch" ELSE "send"
    /\ UNCHANGED <<token, entries, held, sink, logResult, produced, returned,
                   apiErr, cursorUsed, iterDelay, fetchBudget, closes,
                   lateWrites>>

\* a send on a buffered channel: it completes with the writer goroutine
\* still busy
LogSendBuffered ==
    /\ UNCHANGED nonLogVars
    /\ logPc = "send"
    /\ held' = Append(held, Format(Head(entries)))
    /\ entries' = Tail(entries)
    /\ logPc' = IF Tail(entries) = <<>> THEN "fetch" ELSE "send"
    /\ UNCHANGED <<prevToken, nextToken, token, sink, logResult, produced,
                   returned, apiErr, cursorUsed, iterDelay, fetchBudget, closes,
                   lateWrites>>

\* util/fly.go lines 313-322 and 236: out <- logMessage; the channel is
\* unbuffered, so the send completes when the writer goroutine, back at its
\* range, receives the entry
LogSend ==
    /\ UNCHANGED nonLogVars
    /\ logPc = "send"
    /\ held = <<>>
    /\ held' = <<Format(Head(entries))>>
    /\ entries' = Tail(entries)
    /\ logPc' = IF Tail(entries) = <<>> THEN "fetch" ELSE "send"
    /\ UNCHANGED <<prevToken, nextToken, token, sink, logResult, produced,
                   returned, apiErr, cursorUsed, iterDelay, fetchBudget, closes,
                   lateWrites>>

\* a Write on the log writer: the line reaches the sink unless the cleanup
\* function has closed the writer
Written(line) == IF closes = 0 THEN Append(sink, line) ELSE sink

\* util/fly.go line 237: logger.Write([]byte(entry))
LogWrite ==
    /\ UNCHANGED nonLogVars
    /\ held # <<>>
    /\ sink' = Written(Head(held))
    /\ lateWrites' = (lateWrites \/ closes > 0)
    /\ held' = <<>>
    /\ UNCHANGED <<logPc, prevToken, nextToken, token, entries, logResult,
                   produced, returned, apiErr, cursorUsed, iterDelay,
                   fetchBudget, closes>>

LogStep == LogFetch \/ LogSleep \/ LogAdvance \/ LogSend \/ LogWrite

NextLogs ==
    \/ LogFetch
    \/ LogSleep
    \/ LogAdvance
    \/ LogSend
    \/ LogWrite

StartLogs == InitLog /\ IdleConn /\ IdlePoll /\ IdleOpt /\ IdleMach /\ IdleName

SpecLogs == StartLogs /\ [][NextLogs]_vars

(***************************************************************************)
(* ParseTargetOptions applied to every options document and environment    *)
(***************************************************************************)
InitOptions ==
    /\ optPc = "input"
    /\ optDoc \in Docs
    /\ optEnv \in Envs
    /\ optOut = NoOutput

\* one call of ParseTargetOptions
Parse ==
    /\ UNCHANGED nonOptVars
    /\ optPc = "input"
    /\ optOut' = ParseTargetOptions(optDoc, optEnv)
    /\ optPc' = "done"
    /\ UNCHANGED <<optDoc, optEnv>>

NextOptions ==
    \/ Parse

StartOptions == InitOptions /\ IdleConn /\ IdlePoll /\ IdleLog /\ IdleMach /\ IdleName

SpecOptions == StartOptions /\ [][NextOptions]_vars

(***************************************************************************)
(* One machine operation of util/fly.go against every machine list         *)
(***************************************************************************)
InitMachine ==
    /\ mPc = "call"
    /\ mOp \in MachineOps
    /\ machines \in MachineLists
    /\ mReqs = <<>>
    /\ mVol = NoVolume
    /\ mFound = NoMachine
    /\ mRet = "none"
    /\ mMeta = NoMeta
    /\ mPending = {}
    /\ mLast = NoLast

NextMachine ==
    \/ MClient
    \/ MWaitForApp
    \/ MDeployImage
    \/ MCreateVolume
    \/ MLaunch
    \/ MFind
    \/ MStart
    \/ MStop
    \/ MDestroy
    \/ MNewRequest
    \/ MDo
    \/ MApplyDeletion
    \/ MMetadata

StartMachine == InitMachine /\ IdleConn /\ IdlePoll /\ IdleLog /\ IdleOpt /\ IdleName

SpecMachine == StartMachine /\ [][NextMachine]_vars

(***************************************************************************)
(* The naming functions applied to every pair of identifiers                *)
(***************************************************************************)
InitNames ==
    /\ nPc = "input"
    /\ nIds \in Identifiers \X Identifiers
    /\ nOut = <<NoNames, NoNames>>

NextNames ==
    \/ Derive
    \/ DeriveAgain

StartNames == InitNames /\ IdleConn /\ IdlePoll /\ IdleLog /\ IdleOpt /\ IdleMach

SpecNames == StartNames /\ [][NextNames]_vars

(***************************************************************************)
(* Machine operations called one after another on a new app, as the tests  *)
(* of the provider call them: create, look up, destroy, look up            *)
(***************************************************************************)
LifecycleOps == {"CreateMachine", "GetMachine", "DeleteMachine", "DeleteApp"}

InitLifecycle ==
    /\ mPc = "call"
    /\ mOp \in LifecycleOps
    /\ machines = <<>>
    /\ mReqs = <<>>
    /\ mVol = NoVolume
    /\ mFound = NoMachine
    /\ mRet = "none"
    /\ mMeta = NoMeta
    /\ mPending = {}
    /\ mLast = NoLast

\* the next operation is called once the one before has returned
MNextOp ==
    /\ UNCHANGED nonMachVars
    /\ mPc = "done"
    /\ mLast' = [op |-> mOp, ret |-> mRet, id |-> mFound.id]
    /\ mOp' \in LifecycleOps
    /\ mPc' = "call"
    /\ mReqs' = <<>>
    /\ mVol' = NoVolume
    /\ mFound' = NoMachine
    /\ mRet' = "none"
    /\ mMeta' = NoMeta
    /\ UNCHANGED <<machines, mPending>>

NextLifecycle ==
    \/ MNextOp
    \/ MClient
    \/ MDeployImage
    \/ MCreateVolume
    \/ MLaunch
    \/ MFind
    \/ MDestroy
    \/ MNewRequest
    \/ MDo
    \/ MApplyDeletion

StartLifecycle == InitLifecycle /\ IdleConn /\ IdlePoll /\ IdleLog /\ IdleOpt /\ IdleName

SpecLifecycle == StartLifecycle /\ [][NextLifecycle]_vars

(***************************************************************************)
(* provider.go: CreateTarget, its log writer and its log streaming task    *)
(***************************************************************************)
\* what no step of CreateTarget after the parse of the options touches
nonCreateVars == <<pollVars, optVars, machVars, nameVars>>

\* the caller (RPC handler) that runs the CreateTarget call
Creator == "c1"

ErrOptions == "invalid target options"
ErrRemote == "remote create failed"
ErrSsh == "ssh client failed"
ErrEngine == "container engine create failed"

MsgParse == "Failed to parse target options: "
MsgCreate == "Failed to create target: "
MsgDial == "Failed to dial: "
MsgStarted == "target agent started.\n"
MsgClient == "Failed to get client: "
MsgSsh == "Failed to create ssh client: "

\* the streaming task is over: pollLogs has returned its error
StreamEnded == logPc \in {"done", "reported", "closed"}

\* CreateTarget returns v; when line is not "none" it is first written to
\* the log writer; the deferred cleanupFunc of line 80 closes the writer
CtReturn(c, v, line) ==
    /\ callers' = [callers EXCEPT ![c] =
            [IdleCaller EXCEPT !.pc = "done", !.op = callers[c].op, !.ret = v]]
    /\ sink' = IF line = "none" THEN sink ELSE Written(line)
    /\ lateWrites' = (lateWrites \/ (line # "none" /\ closes > 0))
    /\ closes' = closes + 1

\* provider.go lines 75-80: CreateTarget is invoked on an initialized
\* provider and obtains the log writer and its cleanup function
BeginCreate(c) ==
    /\ UNCHANGED <<pollVars, machVars, nameVars>>
    /\ c = Creator
    /\ callers[c].pc = "idle"
    /\ hist.creates = 0
    /\ calls = 0
    /\ optPc' = "input"
    /\ optDoc' \in Docs
    /\ optEnv' \in Envs
    /\ UNCHANGED optOut
    /\ callers' = [callers EXCEPT ![c] =
            [IdleCaller EXCEPT !.pc = "ct_parse", !.op = "CreateTarget",
                               !.host = TargetId]]
    /\ hist' = [hist EXCEPT !.creates = @ + 1]
    /\ calls' = calls + 1
    /\ UNCHANGED <<tsnetConn, sessions, dirExists, sockExists, fwds, startedCap>>
    /\ UNCHANGED logVars

\* the options document and the environment have been consumed
OptionsParsed ==
    /\ optPc' = "idle"
    /\ optDoc' = MalformedDoc
    /\ optEnv' = UnsetEnv
    /\ UNCHANGED optOut

\* provider.go lines 82-86: types.ParseTargetOptions
CtParse(c) ==
    /\ UNCHANGED <<pollVars, machVars, nameVars>>
    /\ At(c, "ct_parse")
    /\ OptionsParsed
    /\ IF ParseTargetOptions(optDoc, optEnv).err = "none"
          THEN /\ Goto(c, "ct_create")
               /\ UNCHANGED <<sink, lateWrites, closes>>
          ELSE CtReturn(c, ErrOptions, MsgParse)
    /\ hist' = Entered("parse")
    /\ UNCHANGED <<tsnetConn, sessions, calls, dirExists, sockExists, fwds,
                   startedCap>>
    /\ UNCHANGED <<logPc, prevToken, nextToken, token, entries, held, logResult,
                   produced, returned, apiErr, cursorUsed, iterDelay,
                   fetchBudget>>

\* provider.go lines 94-98, conn.go lines 128-149: flyutil.CreateTarget
\* creates the app and launches the machine
CtCreate(c) ==
    /\ UNCHANGED nonCreateVars
    /\ At(c, "ct_create")
    /\ \/ /\ Goto(c, "ct_wait")
          /\ hist' = [hist EXCEPT !.machineCreates = @ + 1,
                                  !.remoteCalls = @ + 1,
                                  !.steps = Append(@, "create"),
                                  !.passed = @ \cup {"create"}]
          /\ UNCHANGED <<sink, lateWrites, closes>>
       \/ /\ CtReturn(c, ErrRemote, MsgCreate)
          /\ hist' = [hist EXCEPT !.machineCreates = @ + 1,
                                  !.remoteCalls = @ + 1,
                                  !.steps = Append(@, "create")]
    /\ UNCHANGED <<tsnetConn, sessions, calls, dirExists, sockExists, fwds,
                   startedCap>>
    /\ UNCHANGED <<logPc, prevToken, nextToken, token, entries, held, logResult,
                   produced, returned, apiErr, cursorUsed, iterDelay,
                   fetchBudget>>

\* a create that does not wait for the machine to be started
CtWaitSkipped(c) ==
    /\ UNCHANGED nonCreateVars
    /\ At(c, "ct_wait")
    /\ Goto(c, "ct_go")
    /\ hist' = Entered("wait")
    /\ UNCHANGED <<sink, lateWrites, closes>>
    /\ UNCHANGED <<tsnetConn, sessions, calls, dirExists, sockExists, fwds,
                   startedCap>>
    /\ UNCHANGED <<logPc, prevToken, nextToken, token, entries, held, logResult,
                   produced, returned, apiErr, cursorUsed, iterDelay,
                   fetchBudget>>

\* conn.go lines 150-155: flapsClient.Wait observes the machine started
\* within five minutes, or returns its error
CtWait(c) ==
    /\ UNCHANGED nonCreateVars
    /\ At(c, "ct_wait")
    /\ \/ /\ Goto(c, "ct_go")
          /\ hist' = [hist EXCEPT !.steps = Append(@, "wait"),
                                  !.passed = @ \cup {"wait"}]
          /\ UNCHANGED <<sink, lateWrites, closes>>
       \/ /\ CtReturn(c, ErrRemote, MsgCreate)
          /\ hist' = Entered("wait")
    /\ UNCHANGED <<tsnetConn, sessions, calls, dirExists, sockExists, fwds,
                   startedCap>>
    /\ UNCHANGED <<logPc, prevToken, nextToken, token, entries, held, logResult,
                   produced, returned, apiErr, cursorUsed, iterDelay,
                   fetchBudget>>

\* provider.go lines 100-105: the go statement starts the streaming task,
\* which enters GetTargetLogs and pollLogs
CtGo(c) ==
    /\ UNCHANGED nonCreateVars
    /\ At(c, "ct_go")
    /\ logPc = "idle"
    /\ logPc' = "fetch"
    /\ hist' = [hist EXCEPT !.streamStarts = @ + 1,
                          !.steps = Append(@, "logs")]
    /\ Goto(c, "ct_dial")
    /\ UNCHANGED <<tsnetConn, sessions, calls, dirExists, sockExists, fwds,
                   startedCap>>
    /\ UNCHANGED <<prevToken, nextToken, token, entries, held, sink, logResult,
                   produced, returned, apiErr, cursorUsed, iterDelay,
                   fetchBudget, closes, lateWrites>>

\* a CreateTarget that calls GetTargetLogs in line: it goes on to the
\* dial-wait only once the streaming loop has returned
CtDialAfterStream(c) ==
    /\ UNCHANGED nonConnVars
    /\ At(c, "ct_dial")
    /\ StreamEnded
    /\ callers' = [callers EXCEPT ![c].pc = "ts_check",
                                  ![c].sub = "waitForDial"]
    /\ UNCHANGED <<tsnetConn, sessions, calls, dirExists, sockExists, fwds,
                   startedCap, hist>>

\* provider.go line 107: with the task started, CreateTarget goes straight
\* on and calls waitForDial
CtDial(c) ==
    /\ UNCHANGED nonConnVars
    /\ At(c, "ct_dial")
    /\ logPc # "idle"
    /\ callers' = [callers EXCEPT ![c].pc = "ts_check",
                                  ![c].sub = "waitForDial"]
    /\ hist' = Entered("dial")
    /\ UNCHANGED <<tsnetConn, sessions, calls, dirExists, sockExists, fwds,
                   startedCap>>

\* provider.go lines 108-114: the result of waitForDial; on success the
\* message is written and getDockerClient called
CtAfterDial(c) ==
    /\ UNCHANGED nonCreateVars
    /\ At(c, "ct_after_dial")
    /\ IF callers[c].ret = "ok"
          THEN /\ sink' = Written(MsgStarted)
               /\ lateWrites' = (lateWrites \/ closes > 0)
               /\ UNCHANGED closes
               /\ callers' = [callers EXCEPT
                      ![c].pc = "ts_check",
                      ![c].sub = "getDockerClient",
                      ![c].seen = tsnetConn,
                      ![c].firstUse = ~dirExists[callers[c].host],
                      ![c].afterFail = FailedAndCleaned(callers[c].host)]
          ELSE CtReturn(c, callers[c].ret, MsgDial)
    /\ hist' = IF callers[c].ret = "ok" THEN Entered("client") ELSE hist
    /\ UNCHANGED <<tsnetConn, sessions, calls, dirExists, sockExists, fwds,
                   startedCap>>
    /\ UNCHANGED <<logPc, prevToken, nextToken, token, entries, held, logResult,
                   produced, returned, apiErr, cursorUsed, iterDelay,
                   fetchBudget>>

\* a CreateTarget that goes on to the ssh client whatever getDockerClient
\* returned
CtAfterClientGoesOn(c) ==
    /\ UNCHANGED nonCreateVars
    /\ At(c, "ct_after_client")
    /\ Goto(c, "ct_ssh")
    /\ UNCHANGED <<sink, lateWrites, closes>>
    /\ UNCHANGED <<tsnetConn, sessions, calls, dirExists, sockExists, fwds,
                   startedCap, hist>>
    /\ UNCHANGED <<logPc, prevToken, nextToken, token, entries, held, logResult,
                   produced, returned, apiErr, cursorUsed, iterDelay,
                   fetchBudget>>

\* provider.go lines 115-118: the result of getDockerClient
CtAfterClient(c) ==
    /\ UNCHANGED nonCreateVars
    /\ At(c, "ct_after_client")
    /\ IF callers[c].ret = "ok"
          THEN /\ Goto(c, "ct_ssh")
               /\ UNCHANGED <<sink, lateWrites, closes>>
          ELSE CtReturn(c, callers[c].ret, MsgClient)
    /\ UNCHANGED <<tsnetConn, sessions, calls, dirExists, sockExists, fwds,
                   startedCap, hist>>
    /\ UNCHANGED <<logPc, prevToken, nextToken, token, entries, held, logResult,
                   produced, returned, apiErr, cursorUsed, iterDelay,
                   fetchBudget>>

\* provider.go lines 120-128: tailscale.NewSshClient(p.tsnetConn, ...)
CtSsh(c) ==
    /\ UNCHANGED nonCreateVars
    /\ At(c, "ct_ssh")
    /\ \/ /\ callers' = [callers EXCEPT ![c].pc = "ct_engine",
                                        ![c].conn = tsnetConn]
          /\ UNCHANGED <<sink, lateWrites, closes>>
       \/ CtReturn(c, ErrSsh, MsgSsh)
    /\ hist' = Entered("ssh")
    /\ UNCHANGED <<tsnetConn, sessions, calls, dirExists, sockExists, fwds,
                   startedCap>>
    /\ UNCHANGED <<logPc, prevToken, nextToken, token, entries, held, logResult,
                   produced, returned, apiErr, cursorUsed, iterDelay,
                   fetchBudget>>

\* provider.go lines 129-131: client.CreateTarget returns nil or its error;
\* the deferred sshClient.Close and cleanupFunc run
CtEngine(c) ==
    /\ UNCHANGED nonCreateVars
    /\ At(c, "ct_engine")
    /\ \/ CtReturn(c, "ok", "none")
       \/ CtReturn(c, ErrEngine, "none")
    /\ hist' = Entered("engine")
    /\ UNCHANGED <<tsnetConn, sessions, calls, dirExists, sockExists, fwds,
                   startedCap>>
    /\ UNCHANGED <<logPc, prevToken, nextToken, token, entries, held, logResult,
                   produced, returned, apiErr, cursorUsed, iterDelay,
                   fetchBudget>>

\* an error handler that also hands the streaming error to CreateTarget
StreamErrWriteSurfaced ==
    /\ UNCHANGED nonCreateVars
    /\ logPc = "done"
    /\ sink' = Written(logResult)
    /\ lateWrites' = (lateWrites \/ closes > 0)
    /\ logPc' = "reported"
    /\ callers' = [c \in Callers |->
            IF callers[c].op = "CreateTarget"
               THEN [callers[c] EXCEPT !.ret = logResult] ELSE callers[c]]
    /\ UNCHANGED <<tsnetConn, sessions, calls, dirExists, sockExists, fwds,
                   startedCap, hist>>
    /\ UNCHANGED <<prevToken, nextToken, token, entries, held, logResult,
                   produced, returned, apiErr, cursorUsed, iterDelay,
                   fetchBudget, closes>>

\* provider.go lines 101-102: GetTargetLogs has returned the error of
\* pollLogs; the task writes it to the log writer
StreamErrWrite ==
    /\ UNCHANGED nonLogVars
    /\ logPc = "done"
    /\ sink' = Written(logResult)
    /\ lateWrites' = (lateWrites \/ closes > 0)
    /\ logPc' = "reported"
    /\ UNCHANGED <<prevToken, nextToken, token, entries, held, logResult,
                   produced, returned, apiErr, cursorUsed, iterDelay,
                   fetchBudget, closes>>

\* provider.go line 103: the deferred cleanupFunc of the task closes the log
\* writer, and the task ends
StreamCleanup ==
    /\ UNCHANGED nonLogVars
    /\ logPc = "reported"
    /\ closes' = closes + 1
    /\ logPc' = "closed"
    /\ UNCHANGED <<prevToken, nextToken, token, entries, held, sink, logResult,
                   produced, returned, apiErr, cursorUsed, iterDelay,
                   fetchBudget, lateWrites>>

\* the target lifecycle operations that parse the options and then make
\* one control-plane call
TargetOps == {"StartTarget", "StopTarget", "DestroyTarget",
              "GetTargetProviderMetadata"}

MsgGetMachine == "Failed to get machine: "

\* provider.go lines 134-136, 147-149, 160-162, 173-175: a target operation
\* is invoked and obtains the log writer and its cleanup function
BeginTargetOp(c) ==
    /\ UNCHANGED <<pollVars, machVars, nameVars>>
    /\ c = Creator
    /\ callers[c].pc = "idle"
    /\ calls = 0
    /\ \E o \in TargetOps :
         callers' = [callers EXCEPT ![c] =
            [IdleCaller EXCEPT !.pc = "op_parse", !.op = o, !.host = TargetId]]
    /\ calls' = calls + 1
    /\ optPc' = "input"
    /\ optDoc' \in Docs
    /\ optEnv' \in Envs
    /\ UNCHANGED optOut
    /\ UNCHANGED <<tsnetConn, sessions, dirExists, sockExists, fwds, startedCap,
                   hist>>
    /\ UNCHANGED logVars

\* an operation that makes its control-plane call before it looks at the
\* result of the parse
OpParseAfterRemote(c) ==
    /\ UNCHANGED <<pollVars, machVars, nameVars>>
    /\ At(c, "op_parse")
    /\ OptionsParsed
    /\ hist' = [hist EXCEPT !.remoteCalls = @ + 1,
                          !.steps = Append(@, "parse")]
    /\ IF ParseTargetOptions(optDoc, optEnv).err = "none"
          THEN /\ Goto(c, "op_remote")
               /\ UNCHANGED <<sink, lateWrites, closes>>
          ELSE CtReturn(c, ErrOptions, MsgParse)
    /\ UNCHANGED <<tsnetConn, sessions, calls, dirExists, sockExists, fwds,
                   startedCap>>
    /\ UNCHANGED <<logPc, prevToken, nextToken, token, entries, held, logResult,
                   produced, returned, apiErr, cursorUsed, iterDelay,
                   fetchBudget>>

\* provider.go lines 138-142, 151-155, 164-168, 177-181: ParseTargetOptions
\* and the return of its error
OpParse(c) ==
    /\ UNCHANGED <<pollVars, machVars, nameVars>>
    /\ At(c, "op_parse")
    /\ OptionsParsed
    /\ IF ParseTargetOptions(optDoc, optEnv).err = "none"
          THEN /\ Goto(c, "op_remote")
               /\ UNCHANGED <<sink, lateWrites, closes>>
          ELSE CtReturn(c, ErrOptions, MsgParse)
    /\ hist' = Entered("parse")
    /\ UNCHANGED <<tsnetConn, sessions, calls, dirExists, sockExists, fwds,
                   startedCap>>
    /\ UNCHANGED <<logPc, prevToken, nextToken, token, entries, held, logResult,
                   produced, returned, apiErr, cursorUsed, iterDelay,
                   fetchBudget>>

\* provider.go lines 144, 157, 170, 183-187: the control-plane call of the
\* operation (flyutil.StartTarget, StopTarget, DeleteTarget, GetMachine) and
\* the return of its result
OpRemote(c) ==
    /\ UNCHANGED nonCreateVars
    /\ At(c, "op_remote")
    /\ hist' = [hist EXCEPT !.remoteCalls = @ + 1,
                          !.steps = Append(@, "remote")]
    /\ \/ CtReturn(c, "ok", "none")
       \/ CtReturn(c, ErrRemote,
                   IF callers[c].op = "GetTargetProviderMetadata"
                      THEN MsgGetMachine ELSE "none")
    /\ UNCHANGED <<tsnetConn, sessions, calls, dirExists, sockExists, fwds,
                   startedCap>>
    /\ UNCHANGED <<logPc, prevToken, nextToken, token, entries, held, logResult,
                   produced, returned, apiErr, cursorUsed, iterDelay,
                   fetchBudget>>

TargetOpStep(c) == OpParse(c) \/ OpRemote(c)

CreateStep(c) ==
    \/ CtParse(c) \/ CtCreate(c) \/ CtWait(c) \/ CtGo(c) \/ CtDial(c)
    \/ CtAfterDial(c) \/ CtAfterClient(c) \/ CtSsh(c) \/ CtEngine(c)

StreamStep == LogStep \/ StreamErrWrite \/ StreamCleanup

NextCreate ==
    \/ BeginCreate(Creator)
    \/ CreateStep(Creator)
    \/ BeginTargetOp(Creator)
    \/ TargetOpStep(Creator)
    \/ CallerStep(Creator)
    \/ \E f \in 1..MaxCalls : ForwardStep(f)
    \/ StreamStep

StartCreate == InitConn /\ IdlePoll /\ IdleLog /\ IdleOpt /\ IdleMach /\ IdleName

SpecCreate == StartCreate /\ [][NextCreate]_vars

\* the goroutine of CreateTarget and the forwarding tasks are scheduled;
\* nothing is assumed of the streaming task
FairSpecCreate ==
    /\ SpecCreate
    /\ WF_vars(\/ CreateStep(Creator) \/ CallerStep(Creator)
               \/ \E f \in 1..MaxCalls : ForwardProgress(f))

(***************************************************************************)
(* C1: for one provider instance, under any interleaving of concurrent     *)
(* callers of getTsnetConn, at most one tunnel session is ever constructed *)
(* and every caller that gets a session gets that same session.            *)
(***************************************************************************)
C1_SingleSession ==
    /\ sessions <= 1
    /\ Cardinality(hist.got) <= 1

(***************************************************************************)
(* C4: after a socket forward for a hostname has failed, the next          *)
(* getDockerClient call for the same hostname does not take the 'forward   *)
(* already active' short-circuit: a call that begins after the failed      *)
(* forward was cleaned up finds that the existence check fails.            *)
(***************************************************************************)
C4_NoShortcutAfterFailure ==
    \A c \in Callers : ~(callers[c].afterFail /\ callers[c].shortcut)

(***************************************************************************)
(* C5: when two callers invoke getDockerClient concurrently for the same   *)
(* hostname with no prior local socket directory, exactly one forwarding   *)
(* task is started, and a caller goes on to build its client only once a   *)
(* forward of that hostname has sent the started signal.                   *)
(***************************************************************************)
C5_OneForwardPerConcurrentFirstUse ==
    \A h \in hist.concurrentFirst :
        /\ Cardinality(FwdsOf(h)) <= 1
        /\ \A c \in Callers :
             (callers[c].host = h /\ callers[c].firstUse /\ At(c, "new_client"))
                => \E f \in FwdsOf(h) : fwds[f].signalled

(***************************************************************************)
(* C2: if the machine state source never reports a known-good state,       *)
(* checkMachineReady returns the timeout error: it is out of its loop one  *)
(* state check after the deadline at the latest, and it never returns the  *)
(* timeout error before the deadline recorded on entry.                    *)
(***************************************************************************)
C2_TimeoutAtDeadline ==
    /\ (pollPc = "polling" /\ goodAt = 0) => now <= end + MaxCheckDur
    /\ pollResult = "timeout" => now >= end

(***************************************************************************)
(* C3: checkMachineReady returns Ready only after a state check observed   *)
(* created, started or stopped, and on the first check that does: after N  *)
(* checks that are not known-good it is check N+1 at the earliest.         *)
(***************************************************************************)
C3_ReadyOnFirstKnownGood ==
    /\ pollResult = "ready" =>
          /\ checks >= 1
          /\ goodAt = checks
          /\ lastObs \in {"created", "started", "stopped"}
    /\ pollResult # "ready" => goodAt = 0

C3_Witness ==
    /\ pollResult = "ready"
    /\ checks >= 3
    /\ goodAt = checks

(***************************************************************************)
(* C6: for any sequence of pages returned before a fetch error, the log    *)
(* streamer writes to the sink exactly the entries produced, each once, in *)
(* the order received: what is written, in flight and still to send is at  *)
(* every moment the formatted sequence of all entries produced.            *)
(***************************************************************************)
LinesOf(es) == [i \in 1..Len(es) |-> Format(es[i])]

C6_EntriesInOrder ==
    /\ sink \o held \o LinesOf(entries) = LinesOf(produced)
    /\ (logPc = "done" /\ held = <<>>) => sink = LinesOf(produced)

C6_Witness ==
    /\ logPc = "done"
    /\ held = <<>>
    /\ Len(returned) >= 2
    /\ Len(sink) >= 3
    /\ sink = LinesOf(produced)

(***************************************************************************)
(* C7 as stated: the 10-second delay is applied before the next fetch      *)
(* exactly when the token returned by the fetch equals the previously      *)
(* returned token; when it differs, the cursor advances to the returned    *)
(* token and the next fetch follows with no delay.                         *)
(***************************************************************************)
\* the loop is between the cursor update and the next fetch
AfterAdvance == logPc \in {"send", "fetch"} /\ returned # <<>>

LastToken == returned[Len(returned)]

\* the token returned before the last one; empty before the first fetch
TokenBefore == IF Len(returned) >= 2 THEN returned[Len(returned) - 1] ELSE ""

C7_DelayIffSameToken_Original ==
    AfterAdvance =>
        /\ (iterDelay = 10) = (LastToken = TokenBefore)
        /\ iterDelay \in {0, 10}
        /\ LastToken # TokenBefore => nextToken = LastToken

(***************************************************************************)
(* C7 amended: the 10-second delay is applied before the next fetch        *)
(* exactly when the returned token equals the previously returned token    *)
(* (the empty token before the first fetch); when it differs there is no   *)
(* delay and the cursor advances to the returned token unless that token   *)
(* is empty, in which case the cursor of the last fetch is kept.           *)
(***************************************************************************)
C7_DelayIffSameToken ==
    AfterAdvance =>
        /\ (iterDelay = 10) = (LastToken = TokenBefore)
        /\ iterDelay \in {0, 10}
        /\ LastToken # TokenBefore =>
             nextToken = IF LastToken = "" THEN cursorUsed ELSE LastToken

C7_Witness ==
    /\ AfterAdvance
    /\ Len(returned) >= 2
    /\ LastToken = ""
    /\ TokenBefore # ""
    /\ iterDelay = 0
    /\ nextToken = TokenBefore

(***************************************************************************)
(* C8: the log streaming loop returns only when a page fetch fails, and    *)
(* then returns that fetch error; while fetches succeed it never returns,  *)
(* whatever tokens and pages (including empty ones) are returned.          *)
(***************************************************************************)
C8_ReturnsOnlyFetchError ==
    /\ logPc = "done" => (apiErr \in FetchErrors /\ logResult = apiErr)
    /\ apiErr = "none" => (logPc # "done" /\ logResult = "none")

C8_Witness ==
    /\ logPc = "done"
    /\ logResult = apiErr
    /\ Len(returned) >= 2
    /\ \E i \in 1..Len(returned) : returned[i] = ""
    /\ Len(produced) < Len(returned)

(***************************************************************************)
(* C9: an error of the background log-streaming task ends only that task:  *)
(* no step of the task from the return of the streaming loop on changes    *)
(* the position or the result of the CreateTarget call, an ended task      *)
(* never streams again, no second task and no second machine creation is   *)
(* started, and the result CreateTarget returns is one of its own steps'.  *)
(***************************************************************************)
CreateResults ==
    {"ok", ErrOptions, ErrRemote, ErrSession, ErrDialTimeout, ErrMkdir,
     ErrTunnel, ErrClient, ErrSsh, ErrEngine}

C9_StreamErrorEndsOnlyTask ==
    /\ [][(logPc' # logPc /\ StreamEnded')
             => (callers' = callers /\ hist' = hist)]_vars
    /\ [][StreamEnded => StreamEnded']_vars
    /\ [](hist.streamStarts <= 1 /\ hist.machineCreates <= 1)
    /\ [](callers[Creator].pc = "done" => callers[Creator].ret \in CreateResults)

C9_Witness ==
    /\ logPc = "closed"
    /\ logResult \in FetchErrors
    /\ callers[Creator].pc = "done"
    /\ callers[Creator].ret = "ok"
    /\ hist.streamStarts = 1
    /\ hist.machineCreates = 1

(***************************************************************************)
(* C10: CreateTarget does not wait for the log-streaming task: with no     *)
(* assumption that the task ever takes a step, every CreateTarget call     *)
(* that has begun returns.                                                 *)
(***************************************************************************)
C10_CreateTerminates ==
    (callers[Creator].op = "CreateTarget") ~> (callers[Creator].pc = "done")

\* CreateTarget has returned success while the task it started has not
\* fetched a page, let alone delivered an entry
C10_Witness ==
    /\ callers[Creator].pc = "done"
    /\ callers[Creator].ret = "ok"
    /\ hist.streamStarts = 1
    /\ logPc = "fetch"
    /\ returned = <<>>
    /\ sink = <<MsgStarted>>

(***************************************************************************)
(* C11 as stated: ParseTargetOptions succeeds exactly when the org slug    *)
(* is non-empty and the auth token is non-empty, given in the input or     *)
(* present in FLY_ACCESS_TOKEN; in every other case it returns an error    *)
(* and no options.                                                         *)
(***************************************************************************)
\* the org slug and the token the document gives, empty if it gives none
GivenOrg(doc) == IF doc.org.kind = "str" THEN doc.org.str ELSE ""

GivenToken(doc) == IF doc.token.kind = "str" THEN doc.token.str ELSE ""

\* the token after resolution against the environment
TokenAvailable(doc, env) ==
    GivenToken(doc) # "" \/ (env.set /\ env.val # "")

WellTyped(doc) ==
    /\ doc.wellFormed
    /\ doc.org.kind # "num"
    /\ doc.token.kind # "num"
    /\ doc.disk.kind # "str"

C12_TokenFromEnvOnlyWhenMissing ==
    (optPc = "done" /\ optOut.err = "none") =>
        /\ GivenToken(optDoc) = "" =>
              (optEnv.set /\ optOut.opts.AuthToken = optEnv.val)
        /\ GivenToken(optDoc) # "" =>
              optOut.opts.AuthToken = GivenToken(optDoc)

\* a token in the input and a different one in the environment
C12_Witness ==
    /\ optPc = "done"
    /\ optOut.err = "none"
    /\ GivenToken(optDoc) = "token"
    /\ optEnv = [set |-> TRUE, val |-> "envtoken"]
    /\ optOut.opts.AuthToken = "token"

(***************************************************************************)
(* C13: when the target options fail to resolve, a target lifecycle        *)
(* operation (CreateTarget, StartTarget, StopTarget, DestroyTarget,        *)
(* GetTargetProviderMetadata) returns the configuration error having       *)
(* issued no control-plane call, started no log streaming and created no   *)
(* tunnel session and no socket forward; and while the options are not yet *)
(* parsed none of these has happened either.                               *)
(***************************************************************************)
NothingRemoteYet ==
    /\ hist.remoteCalls = 0
    /\ hist.streamStarts = 0
    /\ sessions = 0
    /\ tsnetConn = NilConn
    /\ fwds = <<>>
    /\ \A h \in Hosts : ~dirExists[h]

C13_ConfigErrorBeforeAnyRemoteCall ==
    /\ optPc = "input" => NothingRemoteYet
    /\ \A c \in Callers :
         (callers[c].pc = "done" /\ callers[c].ret = ErrOptions)
            => NothingRemoteYet

C13_Witness ==
    /\ callers[Creator].pc = "done"
    /\ callers[Creator].op = "DestroyTarget"
    /\ callers[Creator].ret = ErrOptions
    /\ sink = <<MsgParse>>
    /\ closes = 1

(***************************************************************************)
(* C14: the session accessor is idempotent: a call that begins once a      *)
(* session has been constructed and stored constructs nothing new and      *)
(* gets that same session.                                                 *)
(***************************************************************************)
C14_AccessorIdempotent ==
    \A c \in Callers :
        callers[c].seen # NilConn =>
            /\ callers[c].pc \notin {"ts_construct", "ts_store"}
            /\ callers[c].conn \in {NilConn, callers[c].seen}

(***************************************************************************)
(* C15: if the parent directory of the local socket path exists when       *)
(* getDockerClient is called, that call creates no directory and starts no *)
(* forwarding task; it goes from the existence check straight to building  *)
(* the client.                                                             *)
(***************************************************************************)
DirExistedAtCall(c) ==
    callers[c].sub = "getDockerClient" /\ ~callers[c].firstUse

C15_NoForwardWhenDirExists ==
    \A c \in Callers :
        DirExistedAtCall(c) =>
            /\ callers[c].pc \notin {"mkdir", "forward", "wait_started"}
            /\ callers[c].myFwd = 0
            /\ callers[c].pc = "new_client" => callers[c].shortcut

\* the directory is there, the socket file is not, and the client is built
C15_Witness ==
    \E c \in Callers :
        /\ DirExistedAtCall(c)
        /\ callers[c].pc = "new_client"
        /\ callers[c].shortcut
        /\ ~sockExists[callers[c].host]

(***************************************************************************)
(* C16: waitForDial returns success as soon as a dial attempt succeeds;    *)
(* after a failed attempt it sleeps one second and goes back to the        *)
(* timeout check, which sends it to the next attempt as long as the        *)
(* timeout has not elapsed; the timeout error is returned only by a check  *)
(* that finds the timeout elapsed; and every waitForDial call returns.     *)
(***************************************************************************)
\* caller c takes a step from position p
StepsFrom(c, p) == callers[c].pc = p /\ callers'[c] # callers[c]

C16_DialUntilSuccessOrTimeout ==
    /\ [][\A c \in Callers :
            StepsFrom(c, "dial") =>
               \/ callers'[c].pc = "done" /\ callers'[c].ret = "ok"
               \/ /\ callers'[c].pc = "dial_check"
                  /\ callers'[c].elapsed >= callers[c].elapsed + 1
                  /\ callers'[c].elapsed <= callers[c].elapsed + 1 + MaxDialDur]_vars
    /\ [][\A c \in Callers :
            StepsFrom(c, "dial_check") =>
               IF callers[c].elapsed > DialTimeout
                  THEN callers'[c].pc = "done" /\ callers'[c].ret = ErrDialTimeout
                  ELSE callers'[c].pc = "dial"]_vars
    /\ [][\A c \in Callers :
            (callers'[c].ret = ErrDialTimeout /\ callers[c].ret # ErrDialTimeout)
               => (callers[c].pc = "dial_check"
                   /\ callers[c].elapsed > DialTimeout)]_vars
    /\ \A c \in Callers :
          (callers[c].sub = "waitForDial") ~> (callers[c].pc = "done")

\* one call has timed out, another has dialed successfully
C16_Witness ==
    \E c, d \in Callers :
        /\ callers[c].pc = "done" /\ callers[c].ret = ErrDialTimeout
        /\ callers[d].pc = "done" /\ callers[d].ret = "ok"

(***************************************************************************)
(* C17: in machine creation the volume is created before the launch is     *)
(* requested, the launch request mounts exactly the volume ID that the     *)
(* volume creation returned, and after a failed volume creation no launch  *)
(* is requested.                                                           *)
(***************************************************************************)
C17_VolumeBeforeLaunch ==
    /\ \A i \in 1..Len(mReqs) :
          mReqs[i].kind = "Launch" =>
             \E j \in 1..(i - 1) :
                /\ mReqs[j].kind = "CreateVolume"
                /\ mReqs[j].resp \in VolumeIds
                /\ mReqs[i].volume = mReqs[j].resp
    /\ (\E j \in 1..Len(mReqs) :
           mReqs[j].kind = "CreateVolume" /\ mReqs[j].resp = "error")
          => \A i \in 1..Len(mReqs) : mReqs[i].kind # "Launch"

\* a machine was launched with the second volume ID mounted
C17_Witness ==
    /\ mOp = "CreateMachine"
    /\ mPc = "done"
    /\ mRet = "ok"
    /\ \E i \in 1..Len(mReqs) :
          mReqs[i].kind = "Launch" /\ mReqs[i].volume = "vol_b"

(***************************************************************************)
(* C18: StartMachine looks the machine up by name first and requests a     *)
(* start only for the machine it found and only when it observed it as     *)
(* stopped; for a machine observed in any other state it requests no start *)
(* and returns success.                                                    *)
(***************************************************************************)
C18_StartOnlyWhenStopped ==
    mOp = "StartMachine" =>
       /\ \A i \in 1..Len(mReqs) :
             mReqs[i].kind = "Start" =>
                /\ \E j \in 1..(i - 1) :
                      mReqs[j].kind = "List" /\ mReqs[j].resp = "ok"
                /\ mFound.name = getResourceName(Project)
                /\ mFound.state = "stopped"
                /\ mReqs[i].id = mFound.id
       /\ (mPc = "done" /\ mFound # NoMachine /\ mFound.state # "stopped")
             => /\ mRet = "ok"
                /\ \A i \in 1..Len(mReqs) : mReqs[i].kind # "Start"

\* StartMachine found the machine started and returned with only the lookup
C18_Witness ==
    /\ mOp = "StartMachine"
    /\ mPc = "done"
    /\ mFound.state = "started"
    /\ mRet = "ok"
    /\ Len(mReqs) = 1

(***************************************************************************)
(* C19: StopMachine is a no-op when the machine is already stopped: no     *)
(* stop request is sent for a machine observed as stopped.                 *)
(***************************************************************************)
C19_NoStopWhenStopped ==
    (mOp = "StopMachine" /\ mFound.state = "stopped")
       => \A i \in 1..Len(mReqs) : mReqs[i].kind # "Stop"

(***************************************************************************)
(* C20: once the machine list has been fetched, the lookup has returned a  *)
(* listed machine whose name is the derived name exactly when the list     *)
(* holds one, and the not-found error otherwise; it never returns a        *)
(* machine with another name.                                              *)
(***************************************************************************)
ListFetched ==
    \E j \in 1..Len(mReqs) : mReqs[j].kind = "List" /\ mReqs[j].resp = "ok"

\* the remote has removed the machine whose deletion it accepted: the list
\* is no longer the one the lookup fetched
DeletionApplied ==
    \E j \in 1..Len(mReqs) :
       /\ mReqs[j].kind = "Destroy"
       /\ mReqs[j].resp = "ok"
       /\ [kind |-> "machine", id |-> mReqs[j].id] \notin mPending

C20_ExactNameLookup ==
    /\ mFound # NoMachine => mFound.name = getResourceName(Project)
    /\ (ListFetched /\ ~DeletionApplied) =>
          IF \E i \in 1..Len(machines) :
                machines[i].name = getResourceName(Project)
             THEN /\ \E i \in 1..Len(machines) : machines[i] = mFound
                  /\ mFound.name = getResourceName(Project)
                  /\ mRet # ErrNotFound
             ELSE /\ mFound = NoMachine
                  /\ mRet = ErrNotFound

\* the lookup passed over a machine whose name starts with the derived
\* name and returned the machine listed after it
C20_Witness ==
    /\ ListFetched
    /\ Len(machines) = 2
    /\ machines[1].name = getResourceName(Project) \o <<"2">>
    /\ mFound = machines[2]

(***************************************************************************)
(* C21: the app delete returns success when the DELETE is answered with    *)
(* HTTP 202, and returns an error that includes the status code when it is *)
(* answered with a status outside the success class.                       *)
(***************************************************************************)
\* the app delete has returned after the DELETE was answered with a status
DeleteAnswered ==
    /\ mOp = "DeleteApp"
    /\ mPc = "done"
    /\ Len(mReqs) = 1
    /\ mReqs[1].kind = "DeleteApp"
    /\ mReqs[1].resp \in Statuses

C21_AcceptedIsSuccess ==
    DeleteAnswered =>
       /\ mReqs[1].resp = 202 => mRet = "ok"
       /\ mReqs[1].resp = 404 =>
             mRet = "unexpected error while deleting the app status code: 404"
       /\ mReqs[1].resp = 500 =>
             mRet = "unexpected error while deleting the app status code: 500"
       /\ ~IsSuccessClass(mReqs[1].resp) => mRet # "ok"

\* the DELETE of an app was answered with 404
C21_Witness ==
    /\ DeleteAnswered
    /\ mReqs[1].resp = 404
    /\ mRet # "ok"

(***************************************************************************)
(* C22: the app delete treats HTTP 202 as success in addition to HTTP 200: *)
(* a DELETE answered with 200 or with 202 makes it return success.         *)
(***************************************************************************)
C22_OkAndAcceptedAreSuccess ==
    (DeleteAnswered /\ mReqs[1].resp \in {200, 202}) => mRet = "ok"

(***************************************************************************)
(* C23: after a destroy operation has returned success and the remote side *)
(* has applied the deletion it accepted, a lookup of the machine returns   *)
(* an error and no machine.                                                *)
(***************************************************************************)
\* the lookup of GetMachine takes its step
LookupStep == mOp = "GetMachine" /\ mPc = "find" /\ mPc' # "find"

C23_LookupAfterDestroyFails ==
    [][(/\ LookupStep
        /\ mLast.op \in {"DeleteMachine", "DeleteApp"}
        /\ mLast.ret = "ok"
        /\ mPending = {})
          => (mFound' = NoMachine /\ mRet' \in {ErrList, ErrNotFound})]_vars

\* a machine was created and then destroyed with success, and the lookup
\* that follows has returned not-found
C23_Witness ==
    /\ mOp = "GetMachine"
    /\ mPc = "done"
    /\ mLast.op = "DeleteMachine"
    /\ mLast.ret = "ok"
    /\ mLast.id # 0
    /\ mPending = {}
    /\ mRet = ErrNotFound

(***************************************************************************)
(* C24: after a create operation has launched its machine, a lookup by the *)
(* name derived from the same identifier finds that machine, as long as    *)
(* the machine is listed.                                                  *)
(***************************************************************************)
C24_LookupAfterCreateFinds ==
    [][(/\ LookupStep
        /\ mLast.op = "CreateMachine"
        /\ mLast.ret = "ok"
        /\ \E k \in 1..Len(machines) : machines[k].id = mLast.id)
          => \/ mRet' = ErrList
             \/ (mRet' = "ok" /\ mFound'.id = mLast.id
                 /\ mFound'.name = getResourceName(Project))]_vars

\* the lookup after a create has returned the machine that was launched
C24_Witness ==
    /\ mOp = "GetMachine"
    /\ mPc = "done"
    /\ mLast.op = "CreateMachine"
    /\ mLast.ret = "ok"
    /\ mRet = "ok"
    /\ mFound.id = mLast.id
    /\ mFound.mounts \in {<<"vol_a">>, <<"vol_b">>}

(***************************************************************************)
(* C25: the provider metadata returned carries the machine ID and the      *)
(* volume ID of the first mount of the machine that the lookup returns for *)
(* the same identifier, and reports it as running exactly when the state   *)
(* of that machine is started.                                             *)
(***************************************************************************)
C25_MetadataOfMachineFound ==
    mOp = "GetMetadata" =>
       /\ (mPc = "done" /\ mRet = "ok") =>
             /\ \E k \in 1..Len(machines) :
                   /\ machines[k].name = getResourceName(Project)
                   /\ mMeta.MachineId = machines[k].id
                   /\ mMeta.VolumeId = Head(machines[k].mounts)
                   /\ mMeta.IsRunning <=> (machines[k].state = "started")
       /\ mRet # "ok" => mMeta = NoMeta

\* metadata was returned for a stopped machine with two mounts that is
\* listed after a machine of another name
C25_Witness ==
    /\ mOp = "GetMetadata"
    /\ mPc = "done"
    /\ mRet = "ok"
    /\ mFound.id = 2
    /\ mFound.state = "stopped"
    /\ Len(mFound.mounts) = 2
    /\ mMeta = [MachineId |-> 2, VolumeId |-> "vol_b", IsRunning |-> FALSE]

(***************************************************************************)
(* C26: resource naming is deterministic and bounded: repeated derivations *)
(* of an identifier give the same names, and the app/machine name and the  *)
(* volume name have at most 30 characters, all in [A-Za-z0-9_].            *)
(***************************************************************************)
\* name is no longer than the limit and made of the characters kept
WellFormedName(name) ==
    /\ Len(name) <= 30
    /\ \A k \in 1..Len(name) : name[k] \in KeptChars

C26_NamesDeterministicAndBounded ==
    /\ nPc # "differs"
    /\ nPc = "done" =>
          \A i \in 1..2 :
             /\ WellFormedName(nOut[i].resource)
             /\ WellFormedName(nOut[i].volume)

(***************************************************************************)
(* C27: two distinct logical identifiers never derive the same volume      *)
(* name, also when characters are removed or the name is truncated.        *)
(***************************************************************************)
C27_VolumeNamesDoNotCollide ==
    (nPc = "done" /\ nIds[1] # nIds[2]) => nOut[1].volume # nOut[2].volume

(***************************************************************************)
(* C28: when a step of a lifecycle operation fails, the operation returns  *)
(* that error, executes none of its later steps and runs no step again:    *)
(* each step is entered at most once per lifecycle call.                   *)
(***************************************************************************)
\* the steps of a lifecycle operation, in the order of its code
StepsOf(op) ==
    IF op = "CreateTarget"
       THEN <<"parse", "create", "wait", "logs", "dial", "client", "ssh",
              "engine">>
       ELSE <<"parse", "remote">>

\* the errors a step can fail with
StepErrors(step) ==
    CASE step = "parse" -> {ErrOptions}
      [] step \in {"create", "wait", "remote"} -> {ErrRemote}
      [] step = "dial" -> {ErrSession, ErrDialTimeout}
      [] step = "client" -> {ErrSession, ErrMkdir, ErrTunnel, ErrClient}
      [] step = "ssh" -> {ErrSsh}
      [] step = "engine" -> {ErrEngine}
      [] OTHER -> {}

LifecycleCall == callers[Creator].op \in TargetOps \cup {"CreateTarget"}

C28_FailedStepEndsCall ==
    LET c == callers[Creator]
    IN  LifecycleCall =>
          /\ IsPrefix(hist.steps, StepsOf(c.op))
          /\ c.ret \notin {"none", "ok"} =>
                c.pc \in {"ct_after_dial", "ct_after_client", "done"}
          /\ c.pc = "done" =>
                IF c.ret = "ok"
                   THEN hist.steps = StepsOf(c.op)
                   ELSE /\ hist.steps # <<>>
                        /\ c.ret \in StepErrors(hist.steps[Len(hist.steps)])

\* CreateTarget returned the error of its dial-wait, and of a socket
\* forward that failed, with the later steps not entered
C28_Witness ==
    /\ callers[Creator].op = "CreateTarget"
    /\ callers[Creator].pc = "done"
    /\ callers[Creator].ret = ErrTunnel
    /\ hist.steps = <<"parse", "create", "wait", "logs", "dial", "client">>

(***************************************************************************)
(* C29: within one Create call the steps are strictly ordered: the machine *)
(* is launched and observed ready before the dial-wait begins, the         *)
(* dial-wait succeeds before the socket forward is set up, and the         *)
(* container-engine client is built only after the forward reported        *)
(* started.                                                                *)
(***************************************************************************)
\* the step taken is the call of waitForDial
DialWaitBegins ==
    /\ callers[Creator].sub # "waitForDial"
    /\ callers'[Creator].sub = "waitForDial"

\* the step taken starts a socket forward
ForwardSetUp == Len(fwds') > Len(fwds)

\* the step taken builds the container-engine client
ClientBuilt ==
    /\ callers[Creator].pc = "new_client"
    /\ callers'[Creator].pc # "new_client"

\* the helper that returned last was the dial-wait, and it returned ok
DialWaitSucceeded ==
    /\ hist.steps = <<"parse", "create", "wait", "logs", "dial", "client">>
    /\ callers[Creator].sub = "getDockerClient"
    /\ callers[Creator].ret = "ok"

\* the forward of this call has sent started = true
ForwardReportedStarted ==
    /\ callers[Creator].myFwd \in 1..Len(fwds)
    /\ fwds[callers[Creator].myFwd].signalled

C30_NoBusySpin ==
    /\ ~spun
    /\ checks <= Deadline + 1

CleanupBlocked(f) ==
    /\ fwds[f].cleanup = "send_false"
    /\ Receiver(f) = {}
    /\ ~CanSendStarted(f)

C32_SocketRemovedAtReturn ==
    /\ \A c \in Callers :
          (callers[c].pc = "done" /\ callers[c].ret = ErrTunnel)
             => ~sockExists[TargetId]
    /\ \A f \in 1..Len(fwds) : ~CleanupBlocked(f)

(***************************************************************************)
(* C33: the log sink of a Create call is never written to after it has     *)
(* been closed, however the deferred cleanup of Create and the background  *)
(* log-streaming task interleave, and the sink is closed at most once.     *)
(***************************************************************************)
C33_NoWriteAfterClose ==
    /\ ~lateWrites
    /\ closes <= 1

(***************************************************************************)
(* C34: the log streamer applies backpressure: the next page is fetched    *)
(* only when every entry of the current page has been handed to the sink   *)
(* writer, so at most one formatted entry is between the fetcher and the   *)
(* sink at any time.                                                       *)
(***************************************************************************)
C34_Backpressure ==
    /\ Len(held) <= 1
    /\ logPc = "fetch" =>
          /\ entries = <<>>
          /\ Len(produced) <= Len(sink) + 1
    /\ Len(produced) = Len(sink) + Len(held) + Len(entries)

\* the streamer is at its next fetch with the last entry of a page of two
\* handed over and not yet written
C34_Witness ==
    /\ logPc = "fetch"
    /\ Len(returned) >= 1
    /\ Len(held) = 1
    /\ Len(sink) >= 1
    /\ Len(produced) = Len(sink) + 1

(***************************************************************************)
(* C35: in the log streaming loop every fetch after the first non-empty    *)
(* token uses the most recent non-empty token the API returned: an empty   *)
(* returned token never resets the cursor, so the stream does not restart  *)
(* from the beginning within one streaming call.                           *)
(***************************************************************************)
\* the last non-empty token of a sequence of tokens, empty if there is none
LastNonEmpty(toks) ==
    LET at == {i \in 1..Len(toks) : toks[i] # ""}
    IN  IF at = {} THEN ""
        ELSE toks[CHOOSE i \in at : \A j \in at : j <= i]

\* the tokens returned before the last fetch was issued
ReturnedBeforeFetch ==
    IF apiErr = "none" /\ returned # <<>>
       THEN SubSeq(returned, 1, Len(returned) - 1)
       ELSE returned

C35_CursorIsLastNonEmptyToken ==
    /\ cursorUsed = LastNonEmpty(ReturnedBeforeFetch)
    /\ logPc \in {"fetch", "send"} => nextToken = LastNonEmpty(returned)

\* a fetch issued after the tokens t1 and empty used the cursor t1
C35_Witness ==
    /\ Len(returned) >= 2
    /\ ReturnedBeforeFetch # returned
    /\ ReturnedBeforeFetch[Len(ReturnedBeforeFetch)] = ""
    /\ cursorUsed # ""
    /\ cursorUsed = ReturnedBeforeFetch[1]

(***************************************************************************)
(* C36: during readiness polling a failed state check (client              *)
(* construction error, list error, machine not found) counts as not ready: *)
(* the poller keeps polling, and the only error it ever returns is the     *)
(* timeout error.                                                          *)
(***************************************************************************)
C36_FailedCheckIsNotReady ==
    /\ pollResult \in {"none", "ready", "timeout"}
    /\ pollPc = "done" <=> pollResult # "none"
    /\ lastObs \in CheckErrors =>
          /\ pollResult \in {"none", "timeout"}
          /\ pollResult = "timeout" => now >= end

\* every kind of failed check was followed by more polling: the poller ran
\* three checks or more, the last one failed, and it returned the timeout
C36_Witness ==
    /\ pollResult = "timeout"
    /\ lastObs = "not_found"
    /\ checks >= 3
    /\ goodAt = 0

(***************************************************************************)
(* C37: whenever a lifecycle operation constructs an SSH client from the   *)
(* provider's session field, the field holds an established session: the   *)
(* session accessor has succeeded earlier in the same call, so the field   *)
(* is never used while unset.                                              *)
(***************************************************************************)
\* s is a session that was constructed and that the accessor has returned
Established(s) == s \in 1..sessions /\ s \in hist.got

C37_SshOnEstablishedSession ==
    LET c == callers[Creator]
    IN  /\ c.pc = "ct_ssh" =>
              /\ Established(tsnetConn)
              /\ {"dial", "client"} \subseteq {hist.steps[i] : i \in 1..Len(hist.steps)}
        /\ c.pc = "ct_engine" => Established(c.conn)

\* the SSH client of a CreateTarget has been built on the session that
\* its dial-wait constructed
C37_Witness ==
    /\ callers[Creator].pc = "ct_engine"
    /\ callers[Creator].conn = 1
    /\ tsnetConn = 1
    /\ sessions = 1

(***************************************************************************)
(* C38: a failed session construction leaves the provider's session field  *)
(* as it was (unset, when no other call has stored a session) and returns  *)
(* the error: the provider never stores a failed or partial session, and   *)
(* the next call of the accessor attempts the construction again.          *)
(***************************************************************************)
C38_FailedConstructionStoresNothing ==
    /\ [][\A c \in Callers :
            (StepsFrom(c, "ts_construct") /\ sessions' = sessions) =>
               /\ callers'[c].ret = ErrSession
               /\ callers'[c].pc = "done"
               /\ tsnetConn' = tsnetConn]_vars
    /\ [][\A c \in Callers :
            (StepsFrom(c, "ts_check") /\ tsnetConn = NilConn) =>
               callers'[c].pc = "ts_construct"]_vars
    /\ [](tsnetConn \in 0..sessions)

\* one caller's first call failed at the construction and stored nothing;
\* its second call has constructed a session
C38_Witness ==
    \E c, d \in Callers :
        /\ c # d
        /\ callers[d].pc = "idle"
        /\ calls = 2
        /\ callers[c].pc = "ts_store"
        /\ tsnetConn = NilConn
        /\ sessions = 1

=============================================================================
